---- MODULE Spec2Model ----
(***************************************************************************)
(* A model of pyquassel: the QDataStream codec of qtdatastream.py and the  *)
(* session engine QuasselClientProtocol of quassel/protocol.py.            *)
(*                                                                         *)
(* Bytes are naturals 0..255, byte strings are sequences of bytes, and an  *)
(* io.BytesIO is a byte string with a zero-based position.  A Python value *)
(* is a record [t |-> type name, v |-> payload].  A call that can raise    *)
(* returns a record whose exc field names the exception ("none" if none).  *)
(***************************************************************************)
EXTENDS Integers, Sequences, FiniteSets, TLC

\* ------------------------------------------------------------------------
\* quassel/__init__.py

FEATURE_ENCRYPTION == 1
FEATURE_COMPRESSION == 2
DATASTREAMPROTOCOL == 2
DATASTREAMFEATURES == 0
\* 0x42b33f00
MAGIC == 1119043328
\* 0x80000000 does not fit the checker's integers: LIST_END is kept as the
\* big-endian word that Quint32(LIST_END).encode() yields.
LIST_END == <<128, 0, 0, 0>>
\* the keys of the PROTOCOLS dictionary
PROTOCOLS == {DATASTREAMPROTOCOL}

SYNC == 1
RPC == 2
INIT_REQUEST == 3
INIT_DATA == 4
HEART_BEAT == 5
HEART_BEAT_REPLY == 6

\* ------------------------------------------------------------------------
\* qtdatastream.py: type tags

QBOOL == 1
QINT == 2
QUINT == 3
QVARIANTMAP == 8
QVARIANTLIST == 9
QSTRING == 10
QSTRINGLIST == 11
QBYTEARRAY == 12
QDATE == 14
QTIME == 15
QDATETIME == 16
QUSERTYPE == 127
QINT16 == 130
QINT8 == 131
QUINT16 == 133
QUINT8 == 134

\* ------------------------------------------------------------------------
\* String literals of the program, as their code points (all ASCII).

\* 'MsgType'
K_MsgType == <<77, 115, 103, 84, 121, 112, 101>>
\* 'Configured'
K_Configured == <<67, 111, 110, 102, 105, 103, 117, 114, 101, 100>>
\* 'SessionState'
K_SessionState == <<83, 101, 115, 115, 105, 111, 110, 83, 116, 97, 116, 101>>
\* 'Identities'
K_Identities == <<73, 100, 101, 110, 116, 105, 116, 105, 101, 115>>
\* 'NetworkIds'
K_NetworkIds == <<78, 101, 116, 119, 111, 114, 107, 73, 100, 115>>
\* 'BufferInfos'
K_BufferInfos == <<66, 117, 102, 102, 101, 114, 73, 110, 102, 111, 115>>
\* 'ClientInit'
S_ClientInit == <<67, 108, 105, 101, 110, 116, 73, 110, 105, 116>>
\* 'ClientInitAck'
S_ClientInitAck == <<67, 108, 105, 101, 110, 116, 73, 110, 105, 116, 65, 99, 107>>
\* 'ClientLogin'
S_ClientLogin == <<67, 108, 105, 101, 110, 116, 76, 111, 103, 105, 110>>
\* 'ClientLoginAck'
S_ClientLoginAck == <<67, 108, 105, 101, 110, 116, 76, 111, 103, 105, 110, 65, 99, 107>>
\* 'ClientLoginReject'
S_ClientLoginReject == <<67, 108, 105, 101, 110, 116, 76, 111, 103, 105, 110, 82, 101, 106, 101, 99, 116>>
\* 'SessionInit'
S_SessionInit == <<83, 101, 115, 115, 105, 111, 110, 73, 110, 105, 116>>
\* 'ClientVersion'
K_ClientVersion == <<67, 108, 105, 101, 110, 116, 86, 101, 114, 115, 105, 111, 110>>
\* 'ClientDate'
K_ClientDate == <<67, 108, 105, 101, 110, 116, 68, 97, 116, 101>>
\* 'User'
K_User == <<85, 115, 101, 114>>
\* 'Password'
K_Password == <<80, 97, 115, 115, 119, 111, 114, 100>>
\* 'v0.11.0 (unknown revision)'
S_Version == <<118, 48, 46, 49, 49, 46, 48, 32, 40, 117, 110, 107, 110, 111, 119, 110, 32, 114, 101, 118, 105, 115, 105, 111, 110, 41>>
\* 'Jan 11 2015 15:41:00'
S_Date == <<74, 97, 110, 32, 49, 49, 32, 50, 48, 49, 53, 32, 49, 53, 58, 52, 49, 58, 48, 48>>
\* 'Network'
S_Network == <<78, 101, 116, 119, 111, 114, 107>>
\* 'BufferInfo'
N_BufferInfo == <<66, 117, 102, 102, 101, 114, 73, 110, 102, 111>>
\* 'Message'
N_Message == <<77, 101, 115, 115, 97, 103, 101>>
\* 'NetworkInfo'
N_NetworkInfo == <<78, 101, 116, 119, 111, 114, 107, 73, 110, 102, 111>>
\* 'Network::Server'
N_NetworkServer == <<78, 101, 116, 119, 111, 114, 107, 58, 58, 83, 101, 114, 118, 101, 114>>
\* 'Identity'
N_Identity == <<73, 100, 101, 110, 116, 105, 116, 121>>
\* 'IdentityId'
N_IdentityId == <<73, 100, 101, 110, 116, 105, 116, 121, 73, 100>>
\* 'BufferId'
N_BufferId == <<66, 117, 102, 102, 101, 114, 73, 100>>
\* 'NetworkId'
N_NetworkId == <<78, 101, 116, 119, 111, 114, 107, 73, 100>>
\* 'UserId'
N_UserId == <<85, 115, 101, 114, 73, 100>>
\* 'AccountId'
N_AccountId == <<65, 99, 99, 111, 117, 110, 116, 73, 100>>
\* 'MsgId'
N_MsgId == <<77, 115, 103, 73, 100>>
\* 'identityId'
K_identityId == <<105, 100, 101, 110, 116, 105, 116, 121, 73, 100>>
\* 'nicks'
K_nicks == <<110, 105, 99, 107, 115>>
\* 'bufferId', 'networkId', 'type', 'groupId', 'name'
K_bufferId == <<98, 117, 102, 102, 101, 114, 73, 100>>
K_networkId == <<110, 101, 116, 119, 111, 114, 107, 73, 100>>
K_type == <<116, 121, 112, 101>>
K_groupId == <<103, 114, 111, 117, 112, 73, 100>>
K_name == <<110, 97, 109, 101>>
\* 'msgId', 'timeStamp', 'flags', 'bufferInfo', 'sender', 'contents'
K_msgId == <<109, 115, 103, 73, 100>>
K_timeStamp == <<116, 105, 109, 101, 83, 116, 97, 109, 112>>
K_flags == <<102, 108, 97, 103, 115>>
K_bufferInfo == <<98, 117, 102, 102, 101, 114, 73, 110, 102, 111>>
K_sender == <<115, 101, 110, 100, 101, 114>>
K_contents == <<99, 111, 110, 116, 101, 110, 116, 115>>
\* 'network'
K_network == <<110, 101, 116, 119, 111, 114, 107>>
\* 'True', 'False', 'None'
S_True == <<84, 114, 117, 101>>
S_False == <<70, 97, 108, 115, 101>>
S_None == <<78, 111, 110, 101>>
\* 'python' and 'abcd': the user and password of test.py
S_python == <<112, 121, 116, 104, 111, 110>>
S_abcd == <<97, 98, 99, 100>>

\* ------------------------------------------------------------------------
\* Arithmetic on bytes and words

Min(a, b) == IF a <= b THEN a ELSE b

RECURSIVE BitAnd(_, _)
BitAnd(a, b) ==
    IF a = 0 \/ b = 0 THEN 0
    ELSE (IF (a % 2) = 1 /\ (b % 2) = 1 THEN 1 ELSE 0) + 2 * BitAnd(a \div 2, b \div 2)

RECURSIVE BitOr(_, _)
BitOr(a, b) ==
    IF a = 0 THEN b
    ELSE IF b = 0 THEN a
    ELSE (IF (a % 2) = 1 \/ (b % 2) = 1 THEN 1 ELSE 0) + 2 * BitOr(a \div 2, b \div 2)

\* the | of two 32-bit values given as big-endian words
WordOr(w1, w2) == [i \in 1..4 |-> BitOr(w1[i], w2[i])]

\* ------------------------------------------------------------------------
\* Python values

VNone == [t |-> "none", v |-> 0]
VBool(x) == [t |-> "bool", v |-> x]
VInt(n) == [t |-> "int", v |-> n]
VBytes(b) == [t |-> "bytes", v |-> b]
VStr(cps) == [t |-> "str", v |-> cps]
VList(items) == [t |-> "list", v |-> items]
\* a dict: its (key, value) pairs in insertion order, keys distinct
VDict(pairs) == [t |-> "dict", v |-> pairs]
VDate(y, m, d) == [t |-> "date", v |-> [year |-> y, month |-> m, day |-> d]]
VTime(h, mi, s, us) ==
    [t |-> "time", v |-> [hour |-> h, minute |-> mi, second |-> s, microsecond |-> us]]
VDateTime(date, time) == [t |-> "datetime", v |-> [date |-> date, time |-> time]]
\* a carrier object of a QtType class, e.g. Qint16(6)
VQt(tag, x) == [t |-> "qt", v |-> [QT_TYPE |-> tag, data |-> x]]

Ok(val, pos) == [exc |-> "none", val |-> val, pos |-> pos]
Raise(e, pos) == [exc |-> e, val |-> VNone, pos |-> pos]

\* Python equality of two values: values of different types are unequal,
\* except that True == 1 and False == 0
PyEq(a, b) ==
    IF a.t = b.t THEN a.v = b.v
    ELSE IF a.t = "bool" /\ b.t = "int" THEN b.v = (IF a.v THEN 1 ELSE 0)
    ELSE IF a.t = "int" /\ b.t = "bool" THEN a.v = (IF b.v THEN 1 ELSE 0)
    ELSE FALSE

\* Python truth value
Truthy(a) ==
    CASE a.t = "none" -> FALSE
      [] a.t = "bool" -> a.v
      [] a.t = "int" -> a.v # 0
      [] a.t \in {"bytes", "str", "list", "dict"} -> a.v # <<>>
      [] OTHER -> TRUE

RECURSIVE DictIndex(_, _, _)
DictIndex(pairs, key, i) ==
    IF i > Len(pairs) THEN 0
    ELSE IF PyEq(pairs[i][1], key) THEN i
    ELSE DictIndex(pairs, key, i + 1)

DictHas(d, key) == DictIndex(d.v, key, 1) # 0
DictGet(d, key) == d.v[DictIndex(d.v, key, 1)][2]
\* d[key] = val: a key already present keeps its place
DictSet(d, key, val) ==
    LET i == DictIndex(d.v, key, 1)
    IN  IF i = 0 THEN VDict(Append(d.v, <<key, val>>))
        ELSE VDict([d.v EXCEPT ![i] = <<key, val>>])

\* ------------------------------------------------------------------------
\* bytes.decode and str.encode, for 'utf-8' and 'utf-16-be'.  A str is the
\* sequence of its code points.  A decode returns [ok, cps]: ok is FALSE
\* where Python raises UnicodeDecodeError.
TextOk(cps) == [ok |-> TRUE, cps |-> cps]
TextError == [ok |-> FALSE, cps |-> <<>>]

InRange(x, lo, hi) == lo <= x /\ x <= hi
IsCont(bs, i) == i <= Len(bs) /\ InRange(bs[i], 128, 191)

RECURSIVE Utf8Decode(_, _, _)
Utf8Decode(bs, i, acc) ==
    IF i > Len(bs) THEN TextOk(acc)
    ELSE LET b == bs[i] IN
      IF b < 128 THEN Utf8Decode(bs, i + 1, Append(acc, b))
      ELSE IF InRange(b, 194, 223) /\ IsCont(bs, i + 1)
        THEN Utf8Decode(bs, i + 2, Append(acc, (b - 192) * 64 + (bs[i + 1] - 128)))
      ELSE IF InRange(b, 224, 239) /\ IsCont(bs, i + 1) /\ IsCont(bs, i + 2)
              /\ (b = 224 => bs[i + 1] >= 160) /\ (b = 237 => bs[i + 1] <= 159)
        THEN Utf8Decode(bs, i + 3,
                 Append(acc, (b - 224) * 4096 + (bs[i + 1] - 128) * 64 + (bs[i + 2] - 128)))
      ELSE IF InRange(b, 240, 244) /\ IsCont(bs, i + 1) /\ IsCont(bs, i + 2) /\ IsCont(bs, i + 3)
              /\ (b = 240 => bs[i + 1] >= 144) /\ (b = 244 => bs[i + 1] <= 143)
        THEN Utf8Decode(bs, i + 4,
                 Append(acc, (b - 240) * 262144 + (bs[i + 1] - 128) * 4096
                             + (bs[i + 2] - 128) * 64 + (bs[i + 3] - 128)))
      ELSE TextError

RECURSIVE Utf16BeDecode(_, _, _)
Utf16BeDecode(bs, i, acc) ==
    IF i > Len(bs) THEN TextOk(acc)
    ELSE IF i = Len(bs) THEN TextError
    ELSE LET u == bs[i] * 256 + bs[i + 1] IN
      IF ~InRange(u, 55296, 57343) THEN Utf16BeDecode(bs, i + 2, Append(acc, u))
      ELSE IF u <= 56319 /\ i + 3 <= Len(bs)
              /\ InRange(bs[i + 2] * 256 + bs[i + 3], 56320, 57343)
        THEN Utf16BeDecode(bs, i + 4,
                 Append(acc, 65536 + (u - 55296) * 1024 + (bs[i + 2] * 256 + bs[i + 3] - 56320)))
      ELSE TextError

RECURSIVE Utf8Encode(_)
Utf8Encode(cps) ==
    IF cps = <<>> THEN <<>>
    ELSE LET c == Head(cps) IN
      (IF c < 128 THEN <<c>>
       ELSE IF c < 2048 THEN <<192 + (c \div 64), 128 + (c % 64)>>
       ELSE IF c < 65536 THEN <<224 + (c \div 4096), 128 + ((c \div 64) % 64), 128 + (c % 64)>>
       ELSE <<240 + (c \div 262144), 128 + ((c \div 4096) % 64), 128 + ((c \div 64) % 64), 128 + (c % 64)>>)
      \o Utf8Encode(Tail(cps))

RECURSIVE Utf16BeEncode(_)
Utf16BeEncode(cps) ==
    IF cps = <<>> THEN <<>>
    ELSE LET c == Head(cps) IN
      (IF c < 65536 THEN <<c \div 256, c % 256>>
       ELSE LET hi == 55296 + ((c - 65536) \div 1024)
                lo == 56320 + ((c - 65536) % 1024)
            IN  <<hi \div 256, hi % 256, lo \div 256, lo % 256>>)
      \o Utf16BeEncode(Tail(cps))

\* str(n) of an int: its decimal digits
RECURSIVE Digits(_)
Digits(n) == IF n < 10 THEN <<48 + n>> ELSE Append(Digits(n \div 10), 48 + (n % 10))

IntStr(n) == IF n < 0 THEN <<45>> \o Digits(0 - n) ELSE Digits(n)

\* ------------------------------------------------------------------------
\* io.BytesIO: read(n) at position p of the byte string b

Read(b, p, n) == IF p >= Len(b) THEN <<>> ELSE SubSeq(b, p + 1, IF n >= Len(b) - p THEN Len(b) ELSE p + n)
ReadPos(b, p, n) == IF p >= Len(b) THEN p ELSE IF n >= Len(b) - p THEN Len(b) ELSE p + n

RECURSIVE Zeros(_)
Zeros(n) == IF n <= 0 THEN <<>> ELSE Append(Zeros(n - 1), 0)

\* write(data) at position p: overwrites, extends, and pads a gap with zeros
BytesIOWrite(b, p, data) ==
    (IF p <= Len(b) THEN SubSeq(b, 1, p) ELSE b \o Zeros(p - Len(b)))
    \o data
    \o SubSeq(b, p + Len(data) + 1, Len(b))

\* ------------------------------------------------------------------------
\* struct.pack / struct.unpack

\* struct.unpack('!I', d): a value of 2^31 or more does not fit the checker's
\* integers and is kept as 2^31 - 1, which is also larger than any length,
\* count, type tag or Julian day the model compares it with.
UnpackU32(d) ==
    IF d[1] >= 128 THEN 2147483647
    ELSE d[1] * 16777216 + d[2] * 65536 + d[3] * 256 + d[4]
\* struct.unpack('!i', d)
UnpackI32(d) ==
    (IF d[1] >= 128 THEN d[1] - 256 ELSE d[1]) * 16777216 + d[2] * 65536 + d[3] * 256 + d[4]
\* struct.pack('!I', n) and struct.pack('!i', n)
PackU32(n) == <<n \div 16777216, (n \div 65536) % 256, (n \div 256) % 256, n % 256>>
PackI32(n) ==
    <<(n \div 16777216) % 256, (n \div 65536) % 256, (n \div 256) % 256, n % 256>>
\* struct.pack('!h', n)
PackI16(n) == <<(n \div 256) % 256, n % 256>>
IsNullWord(d) == d = <<255, 255, 255, 255>>

\* ------------------------------------------------------------------------
\* qtdatastream.py: the decoders of the fixed-width integers.  Each reads
\* from the BytesIO (b, p) and returns [exc, val, pos].

Quint32_decode(b, p) ==
    LET d == Read(b, p, 4)
    IN  IF Len(d) # 4 THEN Raise("struct.error", ReadPos(b, p, 4))
        ELSE [exc |-> "none", val |-> UnpackU32(d), pos |-> p + 4, null |-> IsNullWord(d)]

Qint32_decode(b, p) ==
    LET d == Read(b, p, 4)
    IN  IF Len(d) # 4 THEN Raise("struct.error", ReadPos(b, p, 4))
        ELSE Ok(UnpackI32(d), p + 4)

Quint16_decode(b, p) ==
    LET d == Read(b, p, 2)
    IN  IF Len(d) # 2 THEN Raise("struct.error", ReadPos(b, p, 2))
        ELSE Ok(d[1] * 256 + d[2], p + 2)

Qint16_decode(b, p) ==
    LET d == Read(b, p, 2)
    IN  IF Len(d) # 2 THEN Raise("struct.error", ReadPos(b, p, 2))
        ELSE Ok((IF d[1] >= 128 THEN d[1] - 256 ELSE d[1]) * 256 + d[2], p + 2)

Quint8_decode(b, p) ==
    LET d == Read(b, p, 1)
    IN  IF Len(d) # 1 THEN Raise("struct.error", ReadPos(b, p, 1))
        ELSE Ok(d[1], p + 1)

Qint8_decode(b, p) ==
    LET d == Read(b, p, 1)
    IN  IF Len(d) # 1 THEN Raise("struct.error", ReadPos(b, p, 1))
        ELSE Ok(IF d[1] >= 128 THEN d[1] - 256 ELSE d[1], p + 1)

\* r is what a call returned: F(r) goes on with it, or its exception
\* propagates
Then(r, F(_)) == IF r.exc # "none" THEN Raise(r.exc, r.pos) ELSE F(r)

\* x = v, then F(x)
With(v, F(_)) == F(v)

QBool_decode(b, p) ==
    Then(Quint8_decode(b, p), LAMBDA data : Ok(VBool(data.val = 1), data.pos))

QByteArray_decode(b, p) ==
    Then(Quint32_decode(b, p), LAMBDA length :
      IF length.null THEN Ok(VNone, length.pos)
      ELSE Ok(VBytes(Read(b, length.pos, length.val)), ReadPos(b, length.pos, length.val)))

QString_decode(b, p) ==
    Then(Quint32_decode(b, p), LAMBDA length :
      IF length.null THEN Ok(VNone, length.pos)
      ELSE With(Utf16BeDecode(Read(b, length.pos, length.val), 1, <<>>), LAMBDA string :
             IF ~string.ok THEN Raise("UnicodeDecodeError", ReadPos(b, length.pos, length.val))
             ELSE Ok(VStr(string.cps), ReadPos(b, length.pos, length.val))))

\* ------------------------------------------------------------------------
\* QDate, QTime, QDateTime

QDate_julian_day(date) ==
    LET a == (14 - date.month) \div 12
        y == date.year + 4800 - a
        m == date.month + 12 * a - 3
    IN  date.day + ((153 * m + 2) \div 5) + 365 * y + (y \div 4) - (y \div 100) + (y \div 400) - 32045

QDate_encode(date) == PackU32(QDate_julian_day(date))

\* datetime.date's calendar: the days of a month
IsLeapYear(year) == year % 4 = 0 /\ (year % 100 # 0 \/ year % 400 = 0)

DaysInMonth(year, month) ==
    IF month = 2 THEN (IF IsLeapYear(year) THEN 29 ELSE 28)
    ELSE IF month \in {4, 6, 9, 11} THEN 30
    ELSE 31

\* the date of a Julian day: None for 0, ValueError where datetime.date
\* rejects the year or the day of the month.  A day of 2^29 or more lies beyond year 9999; it is
\* answered before the arithmetic, which would leave the checker's integers.
QDate_of_julian_day(julian_day) ==
    LET a == julian_day + 32044
        b == (4 * a + 3) \div 146097
        c == a - ((146097 * b) \div 4)
        d == (4 * c + 3) \div 1461
        e == c - ((1461 * d) \div 4)
        m == (5 * e + 1) \div 153
        day == e - ((153 * m + 2) \div 5) + 1
        month == m + 3 - 12 * (m \div 10)
        year == 100 * b + d - 4800 + (m \div 10)
    IN  IF julian_day = 0 THEN [exc |-> "none", val |-> VNone]
        ELSE IF julian_day >= 536870912 THEN [exc |-> "ValueError", val |-> VNone]
        ELSE IF year < 1 THEN [exc |-> "none", val |-> VDate(1, 1, 1)]
        ELSE IF year > 9999 THEN [exc |-> "ValueError", val |-> VNone]
        ELSE IF month \notin 1..12 \/ day < 1 \/ day > DaysInMonth(year, month)
          THEN [exc |-> "ValueError", val |-> VNone]
        ELSE [exc |-> "none", val |-> VDate(year, month, day)]

QDate_decode(b, p) ==
    Then(Quint32_decode(b, p), LAMBDA julian_day :
      With(QDate_of_julian_day(julian_day.val), LAMBDA date :
        IF date.exc # "none" THEN Raise(date.exc, julian_day.pos)
        ELSE Ok(date.val, julian_day.pos)))

QTime_encode(time) ==
    PackU32(time.hour * 60 * 60 * 1000 + time.minute * 60 * 1000
            + time.second * 1000 + (time.microsecond \div 1000))

\* datetime.time(hours, minutes, seconds, microseconds) of a count of
\* milliseconds: ValueError where the hours are beyond 23
TimeOfMilliseconds(milliseconds) ==
    LET seconds == milliseconds \div 1000
        minutes == seconds \div 60
        hours == minutes \div 60
    IN  IF hours > 23 THEN [exc |-> "ValueError", val |-> VNone]
        ELSE [exc |-> "none",
              val |-> VTime(hours, minutes % 60, seconds % 60, (milliseconds % 1000) * 1000)]

QTime_decode(b, p) ==
    Then(Quint32_decode(b, p), LAMBDA milliseconds :
      IF milliseconds.null THEN Ok(VNone, milliseconds.pos)
      ELSE With(TimeOfMilliseconds(milliseconds.val), LAMBDA time :
             IF time.exc # "none" THEN Raise(time.exc, milliseconds.pos)
             ELSE Ok(time.val, milliseconds.pos)))

QDateTime_encode(dt) == QDate_encode(dt.date) \o QTime_encode(dt.time) \o <<1>>

QDateTime_decode(b, p) ==
    Then(QDate_decode(b, p), LAMBDA date :
    Then(QTime_decode(b, date.pos), LAMBDA time :
    Then(Quint8_decode(b, time.pos), LAMBDA is_utc :
      IF date.val.t = "none" \/ time.val.t = "none" THEN Ok(VNone, is_utc.pos)
      ELSE Ok(VDateTime(date.val.v, time.val.v), is_utc.pos))))

\* ------------------------------------------------------------------------
\* The type registry

\* the keys of _qt_types: every class decorated with register_mapping
_qt_types ==
    {QUSERTYPE, QBOOL, QINT8, QUINT8, QINT16, QUINT16, QINT, QUINT, QBYTEARRAY,
     QSTRING, QSTRINGLIST, QDATE, QTIME, QDATETIME, QVARIANTMAP, QVARIANTLIST}

UserClass(c) == [alias |-> FALSE, tag |-> 0, cls |-> c]
UserAlias(tag) == [alias |-> TRUE, tag |-> tag, cls |-> ""]

\* the register_user_type calls in the order they run: the two decorated
\* classes at import, the aliases in QuasselClientProtocol.__init__
Registrations ==
    << <<N_BufferInfo, UserClass("BufferInfo")>>,
       <<N_Message, UserClass("Message")>>,
       <<N_NetworkInfo, UserAlias(QVARIANTMAP)>>,
       <<N_NetworkServer, UserAlias(QVARIANTMAP)>>,
       <<N_Identity, UserAlias(QVARIANTMAP)>>,
       <<N_IdentityId, UserAlias(QINT)>>,
       <<N_BufferId, UserAlias(QINT)>>,
       <<N_NetworkId, UserAlias(QINT)>>,
       <<N_UserId, UserAlias(QINT)>>,
       <<N_AccountId, UserAlias(QINT)>>,
       <<N_MsgId, UserAlias(QINT)>> >>

\* _user_types[name] = cls, one registration at a time: the index of the
\* last registration of name, 0 if there is none
RECURSIVE RegistrationIndex(_, _, _)
RegistrationIndex(regs, name, i) ==
    IF i = 0 THEN 0
    ELSE IF regs[i][1] = name THEN i
    ELSE RegistrationIndex(regs, name, i - 1)

\* the module's _user_types dict, kept as the registrations made so far, and
\* the last call of a codec function with what it returned
VARIABLES _user_types, codec

\* name in _user_types
_user_types_has(name) == RegistrationIndex(_user_types, name, Len(_user_types)) # 0

\* _user_types[name] with the first registration of name instead of the last
_user_types_get_first(name) ==
    _user_types[CHOOSE i \in 1..Len(_user_types) :
                  /\ _user_types[i][1] = name
                  /\ \A j \in 1..(i - 1) : _user_types[j][1] # name][2]

\* _user_types[name]
_user_types_get(name) ==
    _user_types[RegistrationIndex(_user_types, name, Len(_user_types))][2]

\* register_user_type(name)(cls): TypeError for a cls that is no built-in
\* tag and has no decode method, the registration otherwise
register_user_type(types, name, entry) ==
    IF entry.alias /\ entry.tag \notin _qt_types
      THEN [exc |-> "TypeError", types |-> types]
      ELSE [exc |-> "none", types |-> Append(types, <<name, entry>>)]

\* ------------------------------------------------------------------------
\* The tagged-value decoders.  Each reads from the BytesIO (b, p) and returns
\* [exc, val, pos]: pos is where the read position stands when the call
\* returns or raises.

\* QByteArray.decode(data).decode('utf-8') of BufferInfo and Message
Utf8Field_decode(b, p) ==
    Then(QByteArray_decode(b, p), LAMBDA array :
      IF array.val.t = "none" THEN Raise("AttributeError", array.pos)
      ELSE With(Utf8Decode(array.val.v, 1, <<>>), LAMBDA text :
             IF ~text.ok THEN Raise("UnicodeDecodeError", array.pos)
             ELSE Ok(VStr(text.cps), array.pos)))

BufferInfo_decode(b, p) ==
    Then(Qint32_decode(b, p), LAMBDA bufferId :
    Then(Qint32_decode(b, bufferId.pos), LAMBDA networkId :
    Then(Qint16_decode(b, networkId.pos), LAMBDA type :
    Then(Quint32_decode(b, type.pos), LAMBDA groupId :
    Then(Utf8Field_decode(b, groupId.pos), LAMBDA name :
      Ok(VDict(<< <<VStr(K_bufferId), VInt(bufferId.val)>>,
                  <<VStr(K_networkId), VInt(networkId.val)>>,
                  <<VStr(K_type), VInt(type.val)>>,
                  <<VStr(K_groupId), VInt(groupId.val)>>,
                  <<VStr(K_name), name.val>> >>), name.pos))))))

Message_decode(b, p) ==
    Then(Qint32_decode(b, p), LAMBDA msgId :
    Then(Quint32_decode(b, msgId.pos), LAMBDA timeStamp :
    Then(Quint32_decode(b, timeStamp.pos), LAMBDA type :
    Then(Quint8_decode(b, type.pos), LAMBDA flags :
    Then(BufferInfo_decode(b, flags.pos), LAMBDA bufferInfo :
    Then(Utf8Field_decode(b, bufferInfo.pos), LAMBDA sender :
    Then(Utf8Field_decode(b, sender.pos), LAMBDA contents :
      Ok(VDict(<< <<VStr(K_msgId), VInt(msgId.val)>>,
                  <<VStr(K_timeStamp), VInt(timeStamp.val)>>,
                  <<VStr(K_type), VInt(type.val)>>,
                  <<VStr(K_flags), VInt(flags.val)>>,
                  <<VStr(K_bufferInfo), bufferInfo.val>>,
                  <<VStr(K_sender), sender.val>>,
                  <<VStr(K_contents), contents.val>> >>), contents.pos))))))))

\* a fixed-width integer decoder, its result as a Python int
IntResult(r) == Then(r, LAMBDA n : Ok(VInt(n.val), n.pos))

RECURSIVE QVariant_decode(_, _)
RECURSIVE DecodeByTag(_, _, _)
RECURSIVE UserType_decode(_, _)
RECURSIVE QVariantList_items(_, _, _, _)
RECURSIVE QVariantMap_entries(_, _, _, _)
RECURSIVE QStringList_items(_, _, _, _)

\* for x in range(length): list_data.append(QVariant.decode(buffer))
QVariantList_items(b, p, n, acc) ==
    IF n = 0 THEN Ok(VList(acc), p)
    ELSE Then(QVariant_decode(b, p), LAMBDA item :
           QVariantList_items(b, item.pos, n - 1, Append(acc, item.val)))

QVariantList_decode(b, p) ==
    Then(Quint32_decode(b, p), LAMBDA length :
      QVariantList_items(b, length.pos, length.val, <<>>))

\* for i in range(entries): key = QString.decode(data); dict[key] = QVariant.decode(data)
QVariantMap_entries(b, p, n, acc) ==
    IF n = 0 THEN Ok(acc, p)
    ELSE Then(QString_decode(b, p), LAMBDA key :
         Then(QVariant_decode(b, key.pos), LAMBDA value :
           QVariantMap_entries(b, value.pos, n - 1, DictSet(acc, key.val, value.val))))

QVariantMap_decode(b, p) ==
    Then(Quint32_decode(b, p), LAMBDA entries :
      QVariantMap_entries(b, entries.pos, entries.val, VDict(<<>>)))

QStringList_items(b, p, n, acc) ==
    IF n = 0 THEN Ok(VList(acc), p)
    ELSE Then(QString_decode(b, p), LAMBDA string :
           QStringList_items(b, string.pos, n - 1, Append(acc, string.val)))

QStringList_decode(b, p) ==
    Then(Quint32_decode(b, p), LAMBDA count :
      QStringList_items(b, count.pos, count.val, <<>>))

\* _qt_types[tag](data)
DecodeByTag(tag, b, p) ==
    CASE tag = QUSERTYPE -> UserType_decode(b, p)
      [] tag = QBOOL -> QBool_decode(b, p)
      [] tag = QINT8 -> IntResult(Qint8_decode(b, p))
      [] tag = QUINT8 -> IntResult(Quint8_decode(b, p))
      [] tag = QINT16 -> IntResult(Qint16_decode(b, p))
      [] tag = QUINT16 -> IntResult(Quint16_decode(b, p))
      [] tag = QINT -> IntResult(Qint32_decode(b, p))
      [] tag = QUINT -> IntResult(Quint32_decode(b, p))
      [] tag = QBYTEARRAY -> QByteArray_decode(b, p)
      [] tag = QSTRING -> QString_decode(b, p)
      [] tag = QSTRINGLIST -> QStringList_decode(b, p)
      [] tag = QDATE -> QDate_decode(b, p)
      [] tag = QTIME -> QTime_decode(b, p)
      [] tag = QDATETIME -> QDateTime_decode(b, p)
      [] tag = QVARIANTMAP -> QVariantMap_decode(b, p)
      [] tag = QVARIANTLIST -> QVariantList_decode(b, p)

\* _qt_types[_user_types[name]](data) or _user_types[name].decode(data)
DecodeRegistered(entry, b, p) ==
    IF entry.alias THEN DecodeByTag(entry.tag, b, p)
    ELSE IF entry.cls = "BufferInfo" THEN BufferInfo_decode(b, p)
    ELSE Message_decode(b, p)

\* data.read(name_length)[:-1]
NameBytes(b, p, n) == SubSeq(Read(b, p, n), 1, Len(Read(b, p, n)) - 1)

UserType_decode(b, p) ==
    Then(Quint32_decode(b, p), LAMBDA name_length :
      With(Utf8Decode(NameBytes(b, name_length.pos, name_length.val), 1, <<>>), LAMBDA name :
        IF ~name.ok THEN Raise("UnicodeDecodeError", ReadPos(b, name_length.pos, name_length.val))
        ELSE IF _user_types_has(name.cps)
          THEN DecodeRegistered(_user_types_get(name.cps), b,
                                ReadPos(b, name_length.pos, name_length.val))
        ELSE Raise("DecodeException", ReadPos(b, name_length.pos, name_length.val))))

\* type = Quint32.decode(data); data.read(1) for the null flag, ignored
QVariant_decode(b, p) ==
    Then(Quint32_decode(b, p), LAMBDA type :
      IF type.val \in _qt_types THEN DecodeByTag(type.val, b, ReadPos(b, type.pos, 1))
      ELSE Raise("DecodeException", ReadPos(b, type.pos, 1)))

\* ------------------------------------------------------------------------
\* The encoders.  An encode returns [exc, bytes].

Encoded(bytes) == [exc |-> "none", bytes |-> bytes]
EncodeRaise(e) == [exc |-> e, bytes |-> <<>>]

Quint32_encode(n) == PackU32(n)
Qint16_encode(n) == PackI16(n)
QBool_encode(x) == <<IF x THEN 1 ELSE 0>>
QByteArray_encode(data) == Quint32_encode(Len(data)) \o data
QString_encode(cps) ==
    LET array_data == Utf16BeEncode(cps)
    IN  Quint32_encode(Len(array_data)) \o array_data

\* QVariant(x).encode(): tag, null flag, payload.  x carries a QT_TYPE (a
\* Qint16 object here) or its exact Python type is a key of _python_types:
\* bool, bytes, str, date, time, datetime.
QVariant_encode(x) ==
    CASE x.t = "qt" /\ x.v.QT_TYPE = QINT16 ->
             Encoded(Quint32_encode(QINT16) \o <<0>> \o Qint16_encode(x.v.data))
      [] x.t = "bool" -> Encoded(Quint32_encode(QBOOL) \o <<0>> \o QBool_encode(x.v))
      [] x.t = "bytes" -> Encoded(Quint32_encode(QBYTEARRAY) \o <<0>> \o QByteArray_encode(x.v))
      [] x.t = "str" -> Encoded(Quint32_encode(QSTRING) \o <<0>> \o QString_encode(x.v))
      [] x.t = "date" -> Encoded(Quint32_encode(QDATE) \o <<0>> \o QDate_encode(x.v))
      [] x.t = "time" -> Encoded(Quint32_encode(QTIME) \o <<0>> \o QTime_encode(x.v))
      [] x.t = "datetime" -> Encoded(Quint32_encode(QDATETIME) \o <<0>> \o QDateTime_encode(x.v))
      [] OTHER -> EncodeRaise("EncodeException")

\* QVariantList([QVariant(x) for x in values]).encode()
RECURSIVE QVariantList_values(_, _, _)
QVariantList_values(values, i, acc) ==
    IF i > Len(values) THEN Encoded(acc)
    ELSE With(QVariant_encode(values[i]), LAMBDA value :
           IF value.exc # "none" THEN value
           ELSE QVariantList_values(values, i + 1, acc \o value.bytes))

QVariantList_encode(values) ==
    QVariantList_values(values, 1, Quint32_encode(Len(values)))

\* data_streamify(message): message is a dict of str keys; each key goes out
\* as QVariant(key.encode('utf-8')), each value as QVariant(value)
RECURSIVE Streamified(_, _)
Streamified(pairs, i) ==
    IF i > Len(pairs) THEN <<>>
    ELSE <<VBytes(Utf8Encode(pairs[i][1].v)), pairs[i][2]>> \o Streamified(pairs, i + 1)

data_streamify(message) == QVariantList_encode(Streamified(message.v, 1))

\* data_destreamify(list): [exc, val], val the dict of the alternating
\* (UTF-8 bytes key, value) elements
RECURSIVE Destreamified(_, _, _)
Destreamified(list, i, acc) ==
    IF i > Len(list) \div 2 THEN [exc |-> "none", val |-> acc]
    ELSE LET key == list[2 * i - 1]
             text == Utf8Decode(key.v, 1, <<>>)
         IN  IF key.t # "bytes" THEN [exc |-> "AttributeError", val |-> acc]
             ELSE IF ~text.ok THEN [exc |-> "UnicodeDecodeError", val |-> acc]
             ELSE Destreamified(list, i + 1, DictSet(acc, VStr(text.cps), list[2 * i]))

data_destreamify(list) ==
    IF Len(list.v) % 2 # 0 THEN [exc |-> "AssertionError", val |-> VDict(<<>>)]
    ELSE Destreamified(list.v, 1, VDict(<<>>))

\* ------------------------------------------------------------------------
\* quassel/protocol.py: QuasselClientProtocol.
\*
\* A method is an operator on the machine m = [self, transport, trace, exc]:
\* self holds the attributes of the protocol object, transport the state of
\* the asyncio transport, trace the calls and writes so far, and exc the
\* exception that is propagating ("none" if none).  A method called while
\* an exception propagates does nothing.

\* an entry of the trace, made while the machine is m: what happened, the
\* Python value, the bytes and the text that go with it, and whether the
\* session is established (self._handshake) at that moment
Ev(m, ev, val, data, info) ==
    [ev |-> ev, val |-> val, data |-> data, info |-> info,
     established |-> m.self._handshake]

Log(m, ev, val, data, info) ==
    [m EXCEPT !.trace = Append(@, Ev(m, ev, val, data, info))]

HasFeature(m, bit) == BitAnd(m.self.connection_features, bit) # 0

Raised(m, e) == [m EXCEPT !.exc = e]

\* transport.write(data) on the layer the bytes were wrapped for: "plain",
\* "z" (deflate stream), "tls", "tls+z", or "hs" (TLS handshake records).
\* Writing no bytes writes nothing.
TransportWrite(m, data, layer) ==
    IF data = <<>> /\ layer \in {"plain", "tls"} THEN m
    ELSE Log(m, "write", VNone, data, layer)

\* The deflater holds the bytes compress() took in until a flush emits them
\* (messages are far smaller than zlib's window, so compress() alone
\* returns no message bytes).
send_data(m, data, flush) ==
    IF m.exc # "none" THEN m
    ELSE IF HasFeature(m, FEATURE_ENCRYPTION) THEN
        IF HasFeature(m, FEATURE_COMPRESSION) THEN
            \* compress(data) + flush(Z_PARTIAL_FLUSH), then feed_appdata
            LET compressed_data == m.self._deflater.pending \o data
            IN  TransportWrite([m EXCEPT !.self._deflater.pending = <<>>],
                               compressed_data, "tls+z")
        ELSE
            \* compressed_data is read before any assignment
            Raised(m, "UnboundLocalError")
    ELSE IF HasFeature(m, FEATURE_COMPRESSION) THEN
        LET taken == [m EXCEPT !.self._deflater.pending = @ \o data]
        IN  IF flush
              THEN TransportWrite([taken EXCEPT !.self._deflater.pending = <<>>],
                                  taken.self._deflater.pending, "z")
              ELSE taken
    ELSE TransportWrite(m, data, "plain")

\* self.send_data(Quint32(len(data)).encode()); self.send_data(data, True)
SendFramed(m, data) ==
    IF data.exc # "none" THEN Raised(m, data.exc)
    ELSE send_data(send_data(m, Quint32_encode(Len(data.bytes)), FALSE), data.bytes, TRUE)

send_message(m, message) ==
    IF m.exc # "none" THEN m ELSE SendFramed(m, QVariantList_encode(message))

send_legacy_message(m, message) ==
    IF m.exc # "none" THEN m ELSE SendFramed(m, data_streamify(message))

ClientInitMessage ==
    VDict(<< <<VStr(K_MsgType), VStr(S_ClientInit)>>,
             <<VStr(K_ClientVersion), VStr(S_Version)>>,
             <<VStr(K_ClientDate), VStr(S_Date)>> >>)

register_client(m) == send_legacy_message(m, ClientInitMessage)

ClientLoginMessage(user, password) ==
    VDict(<< <<VStr(K_MsgType), VStr(S_ClientLogin)>>,
             <<VStr(K_User), user>>,
             <<VStr(K_Password), password>> >>)

\* handle_client_init_ack without its test of data['Configured']
handle_client_init_ack_unconditional(m, data) ==
    IF m.exc # "none" THEN m
    ELSE IF ~DictHas(data, VStr(K_Configured)) THEN Raised(m, "KeyError")
    ELSE send_legacy_message(m, ClientLoginMessage(m.self.user, m.self.password))

handle_client_init_ack(m, data) ==
    IF m.exc # "none" THEN m
    ELSE IF ~DictHas(data, VStr(K_Configured)) THEN Raised(m, "KeyError")
    ELSE IF ~Truthy(DictGet(data, VStr(K_Configured))) THEN m
    ELSE send_legacy_message(m, ClientLoginMessage(m.self.user, m.self.password))

\* a Python value that cannot be a dict key: unhashable
Unhashable(x) == x.t \in {"list", "dict"}

\* for item in x: the items, or TypeError where x is not iterable
Chars(cps) == [i \in 1..Len(cps) |-> VStr(<<cps[i]>>)]
Ints(bs) == [i \in 1..Len(bs) |-> VInt(bs[i])]
Keys(pairs) == [i \in 1..Len(pairs) |-> pairs[i][1]]
Iterate(x) ==
    CASE x.t = "list" -> [exc |-> "none", items |-> x.v]
      [] x.t = "dict" -> [exc |-> "none", items |-> Keys(x.v)]
      [] x.t = "str" -> [exc |-> "none", items |-> Chars(x.v)]
      [] x.t = "bytes" -> [exc |-> "none", items |-> Ints(x.v)]
      [] OTHER -> [exc |-> "TypeError", items |-> <<>>]

\* str(x) for the values a network id is in the model: an int (the decoded
\* NetworkId), and bool, None and str.  The text of any other value is not
\* modelled; the call is then answered with the marker "NotModelled".
PyStr(x) ==
    CASE x.t = "int" -> [exc |-> "none", cps |-> IntStr(x.v)]
      [] x.t = "bool" -> [exc |-> "none", cps |-> IF x.v THEN S_True ELSE S_False]
      [] x.t = "none" -> [exc |-> "none", cps |-> S_None]
      [] x.t = "str" -> [exc |-> "none", cps |-> x.v]
      [] OTHER -> [exc |-> "NotModelled", cps |-> <<>>]

\* for identity in data['Identities']: ...
RECURSIVE IdentitiesLoop(_, _, _)
IdentitiesLoop(m, items, i) ==
    IF m.exc # "none" \/ i > Len(items) THEN m
    ELSE LET identity == items[i] IN
      IF identity.t # "dict" THEN Raised(m, "TypeError")
      ELSE IF ~DictHas(identity, VStr(K_nicks)) \/ ~DictHas(identity, VStr(K_identityId))
        THEN Raised(m, "KeyError")
      ELSE IF Unhashable(DictGet(identity, VStr(K_identityId))) THEN Raised(m, "TypeError")
      ELSE IdentitiesLoop(
             [m EXCEPT !.self._identities =
                 DictSet(@, DictGet(identity, VStr(K_identityId)),
                         VDict(<< <<VStr(K_nicks), DictGet(identity, VStr(K_nicks))>> >>))],
             items, i + 1)

\* for networkid in data['NetworkIds']: ...
RECURSIVE NetworksLoop(_, _, _)
NetworksLoop(m, items, i) ==
    IF m.exc # "none" \/ i > Len(items) THEN m
    ELSE LET networkid == items[i]
             text == PyStr(networkid)
         IN
      IF Unhashable(networkid) THEN Raised(m, "TypeError")
      ELSE IF text.exc # "none" THEN Raised(m, text.exc)
      ELSE NetworksLoop(
             send_message([m EXCEPT !.self._networks = DictSet(@, networkid, VNone)],
                          <<VQt(QINT16, INIT_REQUEST), VBytes(Utf8Encode(S_Network)),
                            VBytes(Utf8Encode(text.cps))>>),
             items, i + 1)

\* for buffer in data['BufferInfos']: ...
RECURSIVE BuffersLoop(_, _, _)
BuffersLoop(m, items, i) ==
    IF m.exc # "none" \/ i > Len(items) THEN m
    ELSE LET buffer == items[i] IN
      IF buffer.t # "dict" THEN Raised(m, "TypeError")
      ELSE IF \E k \in {K_name, K_networkId, K_type, K_bufferId} : ~DictHas(buffer, VStr(k))
        THEN Raised(m, "KeyError")
      ELSE IF Unhashable(DictGet(buffer, VStr(K_bufferId))) THEN Raised(m, "TypeError")
      ELSE BuffersLoop(
             [m EXCEPT !.self._buffers =
                 DictSet(@, DictGet(buffer, VStr(K_bufferId)),
                         VDict(<< <<VStr(K_name), DictGet(buffer, VStr(K_name))>>,
                                  <<VStr(K_network), DictGet(buffer, VStr(K_networkId))>>,
                                  <<VStr(K_type), DictGet(buffer, VStr(K_type))>> >>))],
             items, i + 1)

\* data[key] followed by the for loop over it: the loop's items
Section(data, key) ==
    IF data.t # "dict" THEN [exc |-> "TypeError", items |-> <<>>]
    ELSE IF ~DictHas(data, VStr(key)) THEN [exc |-> "KeyError", items |-> <<>>]
    ELSE Iterate(DictGet(data, VStr(key)))

\* self._identities = {} and the loop over data['Identities']
SessionIdentities(m, section) ==
    IF m.exc # "none" THEN m
    ELSE IF section.exc # "none"
      THEN Raised([m EXCEPT !.self._identities = VDict(<<>>)], section.exc)
    ELSE IdentitiesLoop([m EXCEPT !.self._identities = VDict(<<>>)], section.items, 1)

\* self._networks = {} and the loop over data['NetworkIds']
SessionNetworks(m, section) ==
    IF m.exc # "none" THEN m
    ELSE IF section.exc # "none"
      THEN Raised([m EXCEPT !.self._networks = VDict(<<>>)], section.exc)
    ELSE NetworksLoop([m EXCEPT !.self._networks = VDict(<<>>)], section.items, 1)

\* self._buffers = {} and the loop over data['BufferInfos']
SessionBuffers(m, section) ==
    IF m.exc # "none" THEN m
    ELSE IF section.exc # "none"
      THEN Raised([m EXCEPT !.self._buffers = VDict(<<>>)], section.exc)
    ELSE BuffersLoop([m EXCEPT !.self._buffers = VDict(<<>>)], section.items, 1)

handle_session_init(m, data) ==
    IF m.exc # "none" THEN m
    ELSE SessionBuffers(
           SessionNetworks(
             SessionIdentities([m EXCEPT !.self._handshake = TRUE],
                               Section(data, K_Identities)),
             Section(data, K_NetworkIds)),
           Section(data, K_BufferInfos))

handle_regular_message(m, message) ==
    IF m.exc # "none" THEN m
    ELSE IF Len(message.v) = 0 THEN m
    ELSE LET message_type == message.v[1] IN
      IF PyEq(message_type, VInt(SYNC)) THEN
          IF Len(message.v) < 4 THEN m
          ELSE LET object_name == message.v[3] IN
               IF object_name.t = "none" THEN m
               ELSE IF object_name.t # "bytes" THEN Raised(m, "AttributeError")
               ELSE IF ~Utf8Decode(object_name.v, 1, <<>>).ok THEN Raised(m, "UnicodeDecodeError")
               ELSE m
      ELSE IF PyEq(message_type, VInt(RPC)) THEN m
      ELSE IF PyEq(message_type, VInt(INIT_REQUEST)) THEN m
      ELSE IF PyEq(message_type, VInt(INIT_DATA)) THEN m
      ELSE IF PyEq(message_type, VInt(HEART_BEAT)) THEN
          IF Len(message.v) < 2 THEN Raised(m, "IndexError")
          ELSE send_message(m, <<VQt(QINT16, HEART_BEAT_REPLY), message.v[2]>>)
      ELSE m

TransportClose(m) ==
    Log([m EXCEPT !.transport.state = "closing"], "close", VNone, <<>>, "")

\* the if chain of handle_message over msg_type
HandleLegacyType(m, message_data, msg_type) ==
    IF PyEq(msg_type, VStr(S_ClientInitAck)) THEN handle_client_init_ack(m, message_data)
    ELSE IF PyEq(msg_type, VStr(S_ClientLoginAck)) THEN m
    ELSE IF PyEq(msg_type, VStr(S_ClientLoginReject)) THEN TransportClose(m)
    ELSE IF PyEq(msg_type, VStr(S_SessionInit)) THEN
        IF ~DictHas(message_data, VStr(K_SessionState)) THEN Raised(m, "KeyError")
        ELSE handle_session_init(m, DictGet(message_data, VStr(K_SessionState)))
    ELSE m

\* the branch of handle_message taken while not self._handshake
HandleLegacy(m, message_data) ==
    IF message_data.exc # "none" THEN Raised(m, message_data.exc)
    ELSE IF ~DictHas(message_data.val, VStr(K_MsgType)) THEN Raised(m, "KeyError")
    ELSE HandleLegacyType(m, message_data.val, DictGet(message_data.val, VStr(K_MsgType)))

\* handle_message once QVariantList.decode has returned or raised.  The
\* call is recorded with the bytes the decoder consumed and how the decoding
\* ended.
HandleDecoded(m, list_data) ==
    With(Log([m EXCEPT !.self.pos = list_data.pos], "handle_message", list_data.val,
             Read(m.self._buffer, m.self.pos, list_data.pos - m.self.pos), list_data.exc),
         LAMBDA called :
           IF list_data.exc # "none" THEN Raised(called, list_data.exc)
           ELSE IF ~m.self._handshake THEN HandleLegacy(called, data_destreamify(list_data.val))
           ELSE handle_regular_message(called, list_data.val))

\* handle_message(self._buffer): the list is read at the buffer's position
handle_message(m) ==
    IF m.exc # "none" THEN m
    ELSE HandleDecoded(m, QVariantList_decode(m.self._buffer, m.self.pos))

\* except DecodeException as e: self._buffer.seek(target); log.error(e).
\* The entry "log.error" holds where the frame started, its message_length
\* and the target of the seek.
SeekAndLog(m, frame_start, message_length, target) ==
    Log([m EXCEPT !.exc = "none", !.self.pos = target],
        "log.error", VNone, <<frame_start, message_length, target>>, "DecodeException")

\* handle_data is about to call handle_message for the frame that starts at
\* frame_start: the entry "dispatch" holds frame_start, the frame's
\* message_length and buffer_end
Dispatch(m, frame_start, message_length, buffer_end) ==
    Log(m, "dispatch", VNone, <<frame_start, message_length, buffer_end>>, "")

\* try: self.handle_message(self._buffer), for the first message
\* except DecodeException: self._buffer.seek(4 + message_length)
HandleFirst(m, message_length) ==
    With(handle_message(m), LAMBDA handled :
      IF handled.exc = "DecodeException"
        THEN SeekAndLog(handled, 0, message_length, 4 + message_length)
        ELSE handled)

\* the while loop of handle_data over the trailing messages; returns the
\* machine and the loop's buffer_position.  A frame whose DecodeException
\* seeks the buffer back to where the frame started (a frame of length 0)
\* is read again and again: the loop never ends, the outcome "Hang".
RECURSIVE TrailingMessages(_, _)

TrailingMessage(m, buffer_end, buffer_position, message_length) ==
    IF message_length <= buffer_end - (buffer_position + 4) THEN
        With(handle_message(Dispatch([m EXCEPT !.self.pos = buffer_position + 4],
                                     buffer_position, message_length, buffer_end)),
             LAMBDA handled :
          IF handled.exc = "DecodeException" THEN
              IF message_length = 0
                THEN [m |-> Raised(SeekAndLog(handled, buffer_position, message_length,
                                              buffer_position + message_length), "Hang"),
                      buffer_position |-> buffer_position]
                ELSE TrailingMessages(SeekAndLog(handled, buffer_position, message_length,
                                                 buffer_position + message_length),
                                      buffer_end)
          ELSE TrailingMessages(handled, buffer_end))
    ELSE [m |-> [m EXCEPT !.self.pos = buffer_position + 4],
          buffer_position |-> buffer_position]

TrailingMessages(m, buffer_end) ==
    IF m.exc # "none" \/ buffer_end - m.self.pos < 4
      THEN [m |-> m, buffer_position |-> m.self.pos]
    ELSE TrailingMessage(m, buffer_end, m.self.pos,
                         Quint32_decode(m.self._buffer, m.self.pos).val)

\* the end of handle_data: what is left behind buffer_position starts a new
\* buffer
Compact(loop, buffer_end) ==
    IF loop.m.exc # "none" THEN loop.m
    ELSE IF buffer_end - loop.buffer_position > 0 THEN
        [loop.m EXCEPT !.self._buffer = Read(@, loop.buffer_position, Len(@)),
                       !.self.pos = 0]
    ELSE IF buffer_end - loop.buffer_position = 0 THEN [loop.m EXCEPT !.self.pos = 0]
    ELSE loop.m

\* handle_data behind the read of the first message_length
HandleFrames(m, buffer_end, message_length) ==
    IF message_length > buffer_end + 4 THEN m
    ELSE Compact(TrailingMessages(HandleFirst(Dispatch([m EXCEPT !.self.pos = 4],
                                                       0, message_length, buffer_end),
                                              message_length),
                                  buffer_end),
                 buffer_end)

handle_data(m) ==
    IF m.exc # "none" \/ m.self.pos < 4 THEN m
    ELSE HandleFrames(m, m.self.pos, Quint32_decode(m.self._buffer, 0).val)

\* the callback given to do_handshake; what it prints is an entry of the trace
callback(m, err) ==
    IF err = "none" THEN register_client(Log(m, "print", VNone, <<>>, "we have handshake"))
    ELSE Log(m, "print", VNone, <<>>, "handshake failed")

\* the end of handle_probe_response: self._probing = False
ProbingDone(m) == IF m.exc # "none" THEN m ELSE [m EXCEPT !.self._probing = FALSE]

\* handle_probe_response registering the client behind the probe whether or
\* not a TLS handshake was begun
StartSession_eager(m) ==
    ProbingDone(register_client(
        IF HasFeature(m, FEATURE_ENCRYPTION)
          THEN TransportWrite([m EXCEPT !.self._sslPipe = "handshake"], <<>>, "hs")
          ELSE m))

\* handle_probe_response from "if self.connection_features & FEATURE_ENCRYPTION" on
StartSession(m) ==
    ProbingDone(IF HasFeature(m, FEATURE_ENCRYPTION)
                  THEN TransportWrite([m EXCEPT !.self._sslPipe = "handshake"], <<>>, "hs")
                  ELSE register_client(m))

\* handle_probe_response from the zlib objects on
StartStreams(m) ==
    StartSession(IF HasFeature(m, FEATURE_COMPRESSION)
                   THEN [m EXCEPT !.self._deflater = [init |-> TRUE, pending |-> <<>>],
                                  !.self._inflater = [init |-> TRUE, fed |-> FALSE]]
                   ELSE m)

handle_probe_response(m, data) ==
    IF m.exc # "none" THEN m
    ELSE IF Len(data) # 4 THEN Raised(m, "struct.error")
    ELSE IF data[4] \notin PROTOCOLS THEN Raised([m EXCEPT !.self.proto_type = data[4]], "KeyError")
    ELSE StartStreams([m EXCEPT !.self.proto_type = data[4],
                                !.self.proto_features = data[2] * 256 + data[3],
                                !.self.connection_features = data[1]])

\* self._sslPipe.feed_ssldata(data) and the write of what it returns.  A
\* chunk is [data, tls, z]: data are the application bytes the chunk
\* carries, tls is what the chunk is to a TLS endpoint ("none": no TLS
\* records, "more" / "done" / "fail": handshake records after which the
\* handshake goes on, is complete, has failed, "app": application records),
\* and z tells that data came deflated.  Returns the machine and the
\* application bytes.
FeedSslData(m, chunk) ==
    IF m.self._sslPipe = "handshake" /\ chunk.tls = "more"
      THEN [m |-> TransportWrite(m, <<>>, "hs"), data |-> <<>>]
    ELSE IF m.self._sslPipe = "handshake" /\ chunk.tls = "done"
      THEN [m |-> callback([m EXCEPT !.self._sslPipe = "wrapped"], "none"),
            data |-> chunk.data]
    ELSE IF m.self._sslPipe = "wrapped" /\ chunk.tls = "app"
      THEN [m |-> m, data |-> chunk.data]
    ELSE IF m.self._sslPipe = "wrapped"
      THEN [m |-> Raised(m, "ssl.SSLError"), data |-> <<>>]
    ELSE [m |-> Raised(callback([m EXCEPT !.self._sslPipe = "failed"], "ssl.SSLError"),
                       "ssl.SSLError"),
          data |-> <<>>]

\* self._inflater.decompress(data)
Decompress(m, chunk) ==
    IF ~chunk.z THEN Raised(m, "zlib.error")
    ELSE Log([m EXCEPT !.self._inflater.fed = TRUE], "inflate", VNone, chunk.data, "")

\* data_received behind "if not data: return", for data that is not empty
HandleReceived(m, data) ==
    IF m.exc # "none" THEN m
    ELSE IF m.self._probing THEN handle_probe_response(m, data)
    ELSE handle_data(Log([m EXCEPT !.self._buffer = BytesIOWrite(@, m.self.pos, data),
                                   !.self.pos = @ + Len(data)],
                         "buffer.write", VNone, data, ""))

\* data_received behind the TLS pipe, without the inflater
Received_raw(fed, chunk) ==
    IF fed.m.exc # "none" \/ fed.data = <<>> THEN fed.m
    ELSE HandleReceived(fed.m, fed.data)

\* data_received behind the TLS pipe
Received(fed, chunk) ==
    IF fed.m.exc # "none" \/ fed.data = <<>> THEN fed.m
    ELSE HandleReceived(IF HasFeature(fed.m, FEATURE_COMPRESSION)
                          THEN Decompress(fed.m, chunk)
                          ELSE fed.m,
                        fed.data)

data_received(m, chunk) ==
    Received(IF HasFeature(m, FEATURE_ENCRYPTION) THEN FeedSslData(m, chunk)
             ELSE [m |-> m, data |-> chunk.data],
             chunk)

connection_made(m, is_loopback) ==
    TransportWrite([m EXCEPT !.transport.state = "open",
                             !.transport.is_loopback = is_loopback],
                   Quint32_encode(IF is_loopback THEN BitOr(MAGIC, FEATURE_COMPRESSION)
                                  ELSE BitOr(BitOr(MAGIC, FEATURE_COMPRESSION), FEATURE_ENCRYPTION))
                   \o WordOr(Quint32_encode(BitOr(DATASTREAMPROTOCOL, DATASTREAMFEATURES)),
                             LIST_END),
                   "plain")

connection_lost(m) ==
    Log([m EXCEPT !.transport.state = "closed"], "loop.stop", VNone, <<>>, "")

\* ------------------------------------------------------------------------
\* The peer: what a core puts on the wire (QDataStream, big-endian).

\* a type tag that no decoder is registered for
UnknownTag == 99

WireVariant(tag, payload) == PackU32(tag) \o <<0>> \o payload
WireString(cps) == PackU32(2 * Len(cps)) \o Utf16BeEncode(cps)
WireBytes(bs) == PackU32(Len(bs)) \o bs
WireUser(name, payload) == WireVariant(QUSERTYPE, PackU32(Len(name) + 1) \o name \o <<0>> \o payload)

RECURSIVE Concat(_)
Concat(seqs) == IF seqs = <<>> THEN <<>> ELSE Head(seqs) \o Concat(Tail(seqs))

WireList(variants) == PackU32(Len(variants)) \o Concat(variants)
\* a QVariantMap of (key, variant) pairs
WireMap(entries) ==
    PackU32(Len(entries))
    \o Concat([i \in 1..Len(entries) |-> WireString(entries[i][1]) \o entries[i][2]])
\* a legacy message: the list key, value, key, value, ... with QByteArray keys
WireLegacy(entries) ==
    WireList([i \in 1..(2 * Len(entries)) |->
                 IF i % 2 = 1 THEN WireVariant(QBYTEARRAY, WireBytes(entries[(i + 1) \div 2][1]))
                 ELSE entries[i \div 2][2]])

\* 2015-01-11 15:41:00 UTC as a QDateTime: Julian day 2457034, 56460000 ms
WireTimestamp == PackU32(2457034) \o PackU32(56460000) \o <<1>>
\* a null QDateTime: Julian day 0
WireNullTimestamp == PackU32(0) \o PackU32(0) \o <<1>>

FrameNames ==
    {"ClientInitAck", "ClientInitAckUnconfigured", "ClientLoginAck", "ClientLoginReject",
     "SessionInit", "HeartBeat", "HeartBeatNull", "BadTag",
     "ClientLoginAckPadded", "BadText", "Truncated", "HeartBeatShort", "SessionInitFull"}

Payload(name) ==
    CASE name = "ClientInitAck" ->
           WireLegacy(<< <<K_MsgType, WireVariant(QSTRING, WireString(S_ClientInitAck))>>,
                         <<K_Configured, WireVariant(QBOOL, <<1>>)>> >>)
      [] name = "ClientInitAckUnconfigured" ->
           WireLegacy(<< <<K_MsgType, WireVariant(QSTRING, WireString(S_ClientInitAck))>>,
                         <<K_Configured, WireVariant(QBOOL, <<0>>)>> >>)
      [] name = "ClientLoginAck" ->
           WireLegacy(<< <<K_MsgType, WireVariant(QSTRING, WireString(S_ClientLoginAck))>> >>)
      [] name = "ClientLoginReject" ->
           WireLegacy(<< <<K_MsgType, WireVariant(QSTRING, WireString(S_ClientLoginReject))>> >>)
      [] name = "SessionInit" ->
           WireLegacy(<< <<K_MsgType, WireVariant(QSTRING, WireString(S_SessionInit))>>,
                         <<K_SessionState,
                           WireVariant(QVARIANTMAP,
                             WireMap(<< <<K_Identities, WireVariant(QVARIANTLIST, WireList(<<>>))>>,
                                        <<K_NetworkIds,
                                          WireVariant(QVARIANTLIST,
                                            WireList(<<WireUser(N_NetworkId, PackI32(1))>>))>>,
                                        <<K_BufferInfos, WireVariant(QVARIANTLIST, WireList(<<>>))>>
                                     >>))>> >>)
      [] name = "HeartBeat" ->
           WireList(<<WireVariant(QINT16, PackI16(HEART_BEAT)),
                      WireVariant(QDATETIME, WireTimestamp)>>)
      [] name = "HeartBeatNull" ->
           WireList(<<WireVariant(QINT16, PackI16(HEART_BEAT)),
                      WireVariant(QDATETIME, WireNullTimestamp)>>)
      [] name = "BadTag" ->
           WireList(<<WireVariant(UnknownTag, <<>>)>>)
      \* a ClientLoginAck with one byte behind the list
      [] name = "ClientLoginAckPadded" ->
           WireLegacy(<< <<K_MsgType, WireVariant(QSTRING, WireString(S_ClientLoginAck))>> >>)
           \o <<0>>
      \* a MsgType that is a lone high surrogate, D8 00
      [] name = "BadText" ->
           WireLegacy(<< <<K_MsgType, WireVariant(QSTRING, PackU32(2) \o <<216, 0>>)>> >>)
      \* a list of one element that does not follow
      [] name = "Truncated" -> PackU32(1)
      \* a heart beat without its timestamp
      [] name = "HeartBeatShort" ->
           WireList(<<WireVariant(QINT16, PackI16(HEART_BEAT))>>)
      \* a SessionInit with one identity, the networks 2 and 1 and one buffer
      [] name = "SessionInitFull" ->
           WireLegacy(<< <<K_MsgType, WireVariant(QSTRING, WireString(S_SessionInit))>>,
                         <<K_SessionState,
                           WireVariant(QVARIANTMAP,
                             WireMap(<< <<K_Identities,
                                          WireVariant(QVARIANTLIST,
                                            WireList(<<WireUser(N_Identity,
                                              WireMap(<< <<K_identityId,
                                                           WireUser(N_IdentityId, PackI32(1))>>,
                                                         <<K_nicks,
                                                           WireVariant(QSTRINGLIST,
                                                             PackU32(1) \o WireString(S_python))>>
                                                      >>))>>))>>,
                                        <<K_NetworkIds,
                                          WireVariant(QVARIANTLIST,
                                            WireList(<<WireUser(N_NetworkId, PackI32(2)),
                                                       WireUser(N_NetworkId, PackI32(1))>>))>>,
                                        <<K_BufferInfos,
                                          WireVariant(QVARIANTLIST,
                                            WireList(<<WireUser(N_BufferInfo,
                                              <<0, 0, 0, 1, 0, 0, 0, 2, 0, 2, 0, 0, 0, 0,
                                                0, 0, 0, 2, 35, 97>>)>>))>>
                                     >>))>> >>)

      \* messages of an established session: class A, object o, function f
      [] name = "Sync" ->
           WireList(<<WireVariant(QINT16, PackI16(SYNC)),
                      WireVariant(QBYTEARRAY, WireBytes(<<65>>)),
                      WireVariant(QBYTEARRAY, WireBytes(<<111>>)),
                      WireVariant(QBYTEARRAY, WireBytes(<<102>>))>>)
      \* a SYNC whose object name is the byte FF, which is no UTF-8
      [] name = "SyncBadName" ->
           WireList(<<WireVariant(QINT16, PackI16(SYNC)),
                      WireVariant(QBYTEARRAY, WireBytes(<<65>>)),
                      WireVariant(QBYTEARRAY, WireBytes(<<255>>)),
                      WireVariant(QBYTEARRAY, WireBytes(<<102>>))>>)
      [] name = "Rpc" ->
           WireList(<<WireVariant(QINT16, PackI16(RPC)),
                      WireVariant(QBYTEARRAY, WireBytes(<<102>>))>>)
      [] name = "InitRequest" ->
           WireList(<<WireVariant(QINT16, PackI16(INIT_REQUEST)),
                      WireVariant(QBYTEARRAY, WireBytes(<<65>>)),
                      WireVariant(QBYTEARRAY, WireBytes(<<111>>))>>)
      [] name = "InitData" ->
           WireList(<<WireVariant(QINT16, PackI16(INIT_DATA)),
                      WireVariant(QBYTEARRAY, WireBytes(<<65>>)),
                      WireVariant(QBYTEARRAY, WireBytes(<<111>>)),
                      WireVariant(QVARIANTMAP, WireMap(<<>>))>>)
      [] name = "HeartBeatReply" ->
           WireList(<<WireVariant(QINT16, PackI16(HEART_BEAT_REPLY)),
                      WireVariant(QDATETIME, WireTimestamp)>>)
      \* a type code that is none of the six
      [] name = "UnknownCode" ->
           WireList(<<WireVariant(QINT16, PackI16(HEART_BEAT_REPLY + 1))>>)

\* a frame: the payload behind its length
Frame(name) == PackU32(Len(Payload(name))) \o Payload(name)

RECURSIVE Frames(_)
Frames(names) == IF names = <<>> THEN <<>> ELSE Frame(Head(names)) \o Frames(Tail(names))

\* a probe response: connection features, protocol features, protocol type
ProbeWord(features, proto_type) == <<features, 0, 0, proto_type>>

\* ------------------------------------------------------------------------
\* The state machine

\* probe responses a peer makes before one names the DataStream protocol
MaxProbes == 2
\* frames of its own choice a peer sends on one connection
MaxFrames == 2
\* frames that arrive whole in one chunk
MaxCoalesce == 2
\* chunks that end inside a frame
MaxSplits == 1
\* rounds of the TLS handshake that ask for more records
MaxHsRounds == 1
\* where a chunk ends inside a frame: inside the length prefix, behind it,
\* and short of the frame's end
HeadCut == 2
MidCut == 6
TailCut == 1

VARIABLES self, transport, trace, peer, wire

vars == <<self, transport, trace, peer, wire, _user_types, codec>>

\* no codec function was called yet
NoCall == [op |-> "none", arg |-> VNone, data |-> <<>>, result |-> Ok(VNone, 0)]

\* an attribute that is not set yet
Unset == [t |-> "unset", v |-> 0]

\* QuasselClientProtocol(loop, 'python', 'abcd'), as test.py makes it
__init__ ==
    [connection_features |-> 0,
     user |-> VStr(S_python),
     password |-> VStr(S_abcd),
     _probing |-> TRUE,
     _handshake |-> FALSE,
     _buffer |-> <<>>,
     pos |-> 0,
     proto_type |-> -1,
     proto_features |-> -1,
     _sslPipe |-> "unset",
     _deflater |-> [init |-> FALSE, pending |-> <<>>],
     _inflater |-> [init |-> FALSE, fed |-> FALSE],
     _identities |-> Unset,
     _networks |-> Unset,
     _buffers |-> Unset]

Init ==
    /\ self = __init__
    /\ transport = [state |-> "unconnected", is_loopback |-> FALSE]
    /\ trace = <<>>
    /\ peer = [answers |-> <<>>, features |-> -1, tls |-> "none", rounds |-> 0,
               sent |-> <<>>, splits |-> 0]
    /\ wire = <<>>
    /\ _user_types = Registrations
    /\ codec = NoCall

Machine == [self |-> self, transport |-> transport, trace |-> trace, exc |-> "none"]

\* The event loop after a callback: an exception that escapes data_received
\* is logged and the connection stays (asyncio up to Python 3.6) or is
\* fatal to the transport (asyncio from Python 3.7); a callback that never
\* returns stalls the loop.
Returned(m) ==
    /\ self' = m.self
    /\ IF m.exc = "none" THEN
           /\ trace' = m.trace
           /\ transport' = m.transport
       ELSE IF m.exc = "Hang" THEN
           /\ trace' = Append(m.trace, Ev(m, "hang", VNone, <<>>, ""))
           /\ transport' = [m.transport EXCEPT !.state = "stalled"]
       ELSE
           /\ trace' = Append(m.trace, Ev(m, "raise", VNone, <<>>, m.exc))
           /\ \E fatal \in BOOLEAN :
                transport' = IF fatal /\ m.transport.state = "open"
                               THEN [m.transport EXCEPT !.state = "aborted"]
                               ELSE m.transport

Connect(is_loopback) ==
    /\ transport.state = "unconnected"
    /\ Returned(connection_made(Machine, is_loopback))
    /\ UNCHANGED <<peer, wire, _user_types, codec>>

\* the layers the peer wraps its frames in, as it answered the probe
Chunk(data) ==
    [data |-> data,
     tls |-> IF BitAnd(peer.features, FEATURE_ENCRYPTION) # 0 THEN "app" ELSE "none",
     z |-> BitAnd(peer.features, FEATURE_COMPRESSION) # 0]

\* protocol types other than DataStream that a peer may answer with: legacy
OtherProtocols == {1}

\* the answers of a peer: any set of connection features with the DataStream
\* protocol, or every feature with another protocol
ProbeAnswers ==
    {<<features, DATASTREAMPROTOCOL>> : features \in 0..3}
    \cup {<<FEATURE_ENCRYPTION + FEATURE_COMPRESSION, proto_type>> : proto_type \in OtherProtocols}

\* The peer answers the probe; the four bytes arrive in one chunk.
ProbeResponse(features, proto_type) ==
    /\ transport.state = "open"
    /\ peer.features = -1
    /\ Len(peer.answers) < MaxProbes
    /\ peer' = [peer EXCEPT !.answers = Append(@, <<features, proto_type>>),
                            !.features = IF proto_type = DATASTREAMPROTOCOL THEN features ELSE @,
                            !.tls = IF proto_type = DATASTREAMPROTOCOL
                                       /\ BitAnd(features, FEATURE_ENCRYPTION) # 0
                                    THEN "handshake" ELSE @]
    /\ Returned(data_received(Machine, [data |-> ProbeWord(features, proto_type),
                                        tls |-> "none", z |-> FALSE]))
    /\ UNCHANGED <<wire, _user_types, codec>>

\* TLS handshake records of the peer arrive.
TlsRecord(outcome) ==
    /\ transport.state = "open"
    /\ peer.tls = "handshake"
    /\ outcome = "more" => peer.rounds < MaxHsRounds
    /\ peer' = [peer EXCEPT !.rounds = IF outcome = "more" THEN @ + 1 ELSE @,
                            !.tls = CASE outcome = "more" -> "handshake"
                                      [] outcome = "done" -> "done"
                                      [] outcome = "fail" -> "failed"]
    /\ Returned(data_received(Machine, [data |-> <<>>, tls |-> outcome, z |-> FALSE]))
    /\ UNCHANGED <<wire, _user_types, codec>>

\* the lengths a chunk may stop at inside a frame of the given length
Cuts(length) == {HeadCut, MidCut, length - TailCut} \cap 1..(length - 1)

\* what a core sends to a client it accepts, and a heart beat
CoreScript == <<"ClientInitAck", "ClientLoginAck", "SessionInit", "HeartBeat">>

IsPrefix(s, t) == Len(s) <= Len(t) /\ s = SubSeq(t, 1, Len(s))

CutsOf(names) ==
    IF names = <<>> THEN {0} ELSE {0} \cup Cuts(Len(Frame(names[Len(names)])))

\* The peer sends the frames named, which are of its own choice or go on
\* with the core's script; they arrive behind what is left of a split frame,
\* in one chunk that holds the last of them whole (cut = 0) or only its
\* first cut bytes.
Receive(names, cut) ==
    /\ transport.state = "open"
    /\ peer.features # -1
    /\ peer.tls \in {"none", "done"}
    /\ \/ Len(peer.sent) + Len(names) <= MaxFrames
       \/ IsPrefix(peer.sent \o names, CoreScript)
    /\ names = <<>> => wire # <<>> /\ cut = 0
    /\ cut # 0 => peer.splits < MaxSplits
    /\ LET stream == wire \o Frames(names)
           held == IF cut = 0 THEN 0 ELSE Len(Frame(names[Len(names)])) - cut
       IN  /\ wire' = SubSeq(stream, Len(stream) - held + 1, Len(stream))
           /\ Returned(data_received(Machine, Chunk(SubSeq(stream, 1, Len(stream) - held))))
    /\ peer' = [peer EXCEPT !.sent = @ \o names,
                            !.splits = IF cut = 0 THEN @ ELSE @ + 1]
    /\ UNCHANGED <<_user_types, codec>>

\* The loop tells the protocol that the transport is gone.
ConnectionLost ==
    /\ transport.state \in {"closing", "aborted"}
    /\ self' = self
    /\ transport' = connection_lost(Machine).transport
    /\ trace' = connection_lost(Machine).trace
    /\ UNCHANGED <<peer, wire, _user_types, codec>>

RECURSIVE SeqsUpTo(_, _)
SeqsUpTo(S, n) ==
    IF n = 0 THEN {<<>>}
    ELSE LET shorter == SeqsUpTo(S, n - 1)
         IN  shorter \cup {Append(q, x) : q \in shorter, x \in S}

Next ==
    \/ \E is_loopback \in BOOLEAN : Connect(is_loopback)
    \/ \E answer \in ProbeAnswers : ProbeResponse(answer[1], answer[2])
    \/ \E outcome \in {"more", "done", "fail"} : TlsRecord(outcome)
    \/ \E names \in SeqsUpTo(FrameNames, MaxCoalesce) :
         \E cut \in CutsOf(names) : Receive(names, cut)
    \/ ConnectionLost

Spec == Init /\ [][Next]_vars

\* ------------------------------------------------------------------------
\* The protocol with a peer that sends the messages of an established
\* session behind SessionInit.

SessionFrameNames ==
    {"SessionInit", "HeartBeat", "Sync", "SyncBadName", "Rpc", "InitRequest", "InitData",
     "HeartBeatReply", "UnknownCode"}

SessionNext ==
    \/ \E is_loopback \in BOOLEAN : Connect(is_loopback)
    \/ \E answer \in ProbeAnswers : ProbeResponse(answer[1], answer[2])
    \/ \E outcome \in {"more", "done", "fail"} : TlsRecord(outcome)
    \/ \E names \in SeqsUpTo(SessionFrameNames, MaxCoalesce) :
         \E cut \in CutsOf(names) : Receive(names, cut)
    \/ ConnectionLost

Session == Init /\ [][SessionNext]_vars

\* ------------------------------------------------------------------------
\* The codec on its own: registrations and QVariant.decode calls in any
\* order, with no connection.

\* registrations made on top of the program's own
MaxRegistrations == 2

\* a name the program never registers
UnregisteredName == <<70, 111, 111>>

CodecNames == {N_NetworkId, N_BufferInfo, UnregisteredName}

\* what a caller may register: an alias of a built-in tag, a class with a
\* decode method, or a number that is no built-in tag
CodecEntries ==
    {UserAlias(QINT), UserAlias(QBOOL), UserClass("BufferInfo"), UserAlias(UnknownTag)}

\* payloads: the int 42, a BufferInfo (1, 2, 2, 0, '#a'), and two bytes
CodecPayloads ==
    {<<0, 0, 0, 42>>,
     <<0, 0, 0, 1, 0, 0, 0, 2, 0, 2, 0, 0, 0, 0, 0, 0, 0, 2, 35, 97>>,
     <<0, 0>>}

\* a user-type QVariant with a name given as text
UserVariant(name, payload) == WireUser(Utf8Encode(name), payload)

CodecInputs ==
    {UserVariant(name, payload) : name \in CodecNames, payload \in CodecPayloads}
    \cup {WireVariant(tag, payload) : tag \in {QINT, UnknownTag}, payload \in CodecPayloads}

RegisterUserType(name, entry) ==
    /\ Len(_user_types) < Len(Registrations) + MaxRegistrations
    /\ _user_types' = register_user_type(_user_types, name, entry).types
    /\ codec' = [op |-> "register_user_type", arg |-> VNone, data |-> name,
                 result |-> IF register_user_type(_user_types, name, entry).exc = "none"
                              THEN Ok(VNone, 0) ELSE Raise("TypeError", 0)]
    /\ UNCHANGED <<self, transport, trace, peer, wire>>

Decode(data) ==
    /\ codec' = [op |-> "QVariant.decode", arg |-> VNone, data |-> data,
                 result |-> QVariant_decode(data, 0)]
    /\ UNCHANGED <<self, transport, trace, peer, wire, _user_types>>

CodecNext ==
    \/ \E name \in CodecNames : \E entry \in CodecEntries : RegisterUserType(name, entry)
    \/ \E data \in CodecInputs : Decode(data)

Codec == Init /\ [][CodecNext]_vars

\* ------------------------------------------------------------------------
\* QDate on its own: dates are encoded, and what was encoded, or the Julian
\* day of a peer's choice, is decoded.

\* the first and the last years datetime.date has
EdgeYears == 2
\* a span of years with a century that is no leap year and one that is
SpanFirstYear == 1856
SpanYears == 160

DateYears ==
    (1..EdgeYears) \cup ((9999 - EdgeYears + 1)..9999)
    \cup (SpanFirstYear..(SpanFirstYear + SpanYears))

\* Julian days of a peer's choice: the null day, days before 0001-01-01,
\* the first day and the last
JulianDays == {0, 1, 2, 1721059, 1721060, 1721425, 1721426, 5373484}

\* the call to come: a date to encode, or the bytes of a Julian day to decode
DateInputs ==
    {[op |-> "input", arg |-> VDate(year, month, day), data |-> <<>>, result |-> Ok(VNone, 0)] :
       <<year, month, day>> \in {ymd \in DateYears \X (1..12) \X (1..31) :
                                   ymd[3] <= DaysInMonth(ymd[1], ymd[2])}}
    \cup {[op |-> "input", arg |-> VNone, data |-> PackU32(julian_day), result |-> Ok(VNone, 0)] :
            julian_day \in JulianDays}

DatesInit ==
    /\ self = __init__
    /\ transport = [state |-> "unconnected", is_loopback |-> FALSE]
    /\ trace = <<>>
    /\ peer = [answers |-> <<>>, features |-> -1, tls |-> "none", rounds |-> 0,
               sent |-> <<>>, splits |-> 0]
    /\ wire = <<>>
    /\ _user_types = Registrations
    /\ codec \in DateInputs

\* QDate(date).encode()
QDateEncode ==
    /\ codec.op = "input"
    /\ codec.arg.t = "date"
    /\ codec' = [codec EXCEPT !.op = "QDate.encode", !.data = QDate_encode(codec.arg.v)]
    /\ UNCHANGED <<self, transport, trace, peer, wire, _user_types>>

\* QDate.decode on the bytes QDate.encode returned, or on a peer's bytes
QDateDecode ==
    /\ \/ codec.op = "QDate.encode"
       \/ codec.op = "input" /\ codec.arg.t = "none"
    /\ codec' = [codec EXCEPT !.op = "QDate.decode", !.result = QDate_decode(codec.data, 0)]
    /\ UNCHANGED <<self, transport, trace, peer, wire, _user_types>>

DatesNext == QDateEncode \/ QDateDecode

Dates == DatesInit /\ [][DatesNext]_vars

\* ------------------------------------------------------------------------
\* What the trace tells.

Indices(ev) == {i \in 1..Len(trace) : trace[i].ev = ev}

\* the calls of handle_message, in order
HandleCalls == SelectSeq(trace, LAMBDA e : e.ev = "handle_message")

\* the text under MsgType of a decoded list read as a legacy message, or
\* <<>> where the list is none
MsgTypeOfDict(d) ==
    IF d.exc = "none" /\ DictHas(d.val, VStr(K_MsgType))
       /\ DictGet(d.val, VStr(K_MsgType)).t = "str"
      THEN DictGet(d.val, VStr(K_MsgType)).v
      ELSE <<>>

MsgTypeOf(list) == MsgTypeOfDict(data_destreamify(list))

\* the value under a key of a decoded list read as a legacy message
FieldOfDict(d, key) ==
    IF d.exc = "none" /\ DictHas(d.val, VStr(key)) THEN DictGet(d.val, VStr(key)) ELSE VNone

FieldOf(list, key) == FieldOfDict(data_destreamify(list), key)

\* the application bytes the client wrote behind the probe, in order
RECURSIVE Written(_)
Written(i) ==
    IF i > Len(trace) THEN <<>>
    ELSE IF trace[i].ev = "write" /\ trace[i].info # "hs" THEN trace[i].data \o Written(i + 1)
    ELSE Written(i + 1)

\* the bytes written from entry i of the trace on, up to the next entry that
\* is no write
RECURSIVE WrittenRun(_)
WrittenRun(i) ==
    IF i > Len(trace) \/ trace[i].ev # "write" THEN <<>>
    ELSE trace[i].data \o WrittenRun(i + 1)

\* the payloads of the frames a byte stream is made of
RECURSIVE SplitFrames(_)
SplitFrames(bytes) ==
    IF Len(bytes) < 4 \/ Len(bytes) < 4 + UnpackU32(SubSeq(bytes, 1, 4)) THEN <<>>
    ELSE <<SubSeq(bytes, 5, 4 + UnpackU32(SubSeq(bytes, 1, 4)))>>
         \o SplitFrames(SubSeq(bytes, 5 + UnpackU32(SubSeq(bytes, 1, 4)), Len(bytes)))

\* the lists the client sent: its frames decoded
DecodedOrEmpty(r) == IF r.exc = "none" THEN r.val ELSE VList(<<>>)
Sent == [i \in 1..Len(SplitFrames(Written(2))) |->
            DecodedOrEmpty(QVariantList_decode(SplitFrames(Written(2))[i], 0))]

\* the entry that a write at entry j belongs to: the last entry before j
\* that is no write, 0 if there is none
RECURSIVE Cause(_)
Cause(j) == IF j = 0 THEN 0 ELSE IF trace[j].ev # "write" THEN j ELSE Cause(j - 1)

\* a write that carries a ClientLogin message, with or without the length
\* word in front
CarriesLoginAt(bytes, k) ==
    With(QVariantList_decode(bytes, k),
         LAMBDA r : r.exc = "none" /\ MsgTypeOf(r.val) = S_ClientLogin)

IsLoginWrite(e) ==
    /\ e.ev = "write"
    /\ e.info # "hs"
    /\ Len(e.data) > 8
    /\ CarriesLoginAt(e.data, 0) \/ CarriesLoginAt(e.data, 4)

\* a call of handle_message while handshaking that decoded a ClientInitAck
IsInitAck(e) ==
    /\ e.ev = "handle_message"
    /\ ~e.established
    /\ e.info = "none"
    /\ MsgTypeOf(e.val) = S_ClientInitAck

Configured(e) == Truthy(FieldOf(e.val, K_Configured))

\* valid frames that the client answers with nothing while handshaking
QuietFrames == {"ClientLoginAck", "ClientInitAckUnconfigured"}

\* ------------------------------------------------------------------------
\* The claims.

\* C1 (framer resilience): once every byte of a stream of valid frames has
\* arrived, however the stream was cut into chunks, handle_message has been
\* called exactly once per frame, in order, each call on the frame's payload.
\* Stated for frames that the client answers with nothing.
C1_FramerResilience ==
    (/\ wire = <<>>
     /\ peer.sent # <<>>
     /\ \A i \in 1..Len(peer.sent) : peer.sent[i] \in QuietFrames)
    => /\ Len(HandleCalls) = Len(peer.sent)
       /\ \A i \in 1..Len(peer.sent) :
            /\ HandleCalls[i].info = "none"
            /\ HandleCalls[i].data = Payload(peer.sent[i])

\* C2 (fault isolation): when the decoding of a frame with length word L
\* that starts at offset s fails with a DecodeException, the cursor is moved
\* to s + 4 + L, wherever in the buffer the frame sits.
C2_FaultIsolation ==
    \A i \in Indices("log.error") :
        trace[i].data[3] = trace[i].data[1] + 4 + trace[i].data[2]

\* C3 (authentication flow): against a core that answers the probe with the
\* DataStream protocol and then sends ClientInitAck (configured),
\* ClientLoginAck and SessionInit, the client sends exactly one ClientInit,
\* then exactly one ClientLogin with its user and password, and the session
\* is established once the SessionInit has arrived.
C3_AuthFlow ==
    (/\ Len(peer.answers) = 1
     /\ peer.features # -1
     /\ peer.sent = SubSeq(CoreScript, 1, 3)
     /\ wire = <<>>)
    => /\ self._handshake
       /\ Len(Sent) >= 2
       /\ MsgTypeOf(Sent[1]) = S_ClientInit
       /\ MsgTypeOf(Sent[2]) = S_ClientLogin
       /\ PyEq(FieldOf(Sent[2], K_User), self.user)
       /\ PyEq(FieldOf(Sent[2], K_Password), self.password)
       /\ \A i \in 3..Len(Sent) : MsgTypeOf(Sent[i]) \notin {S_ClientInit, S_ClientLogin}

\* a call of handle_message in an established session on [HEART_BEAT, t],
\* t a timestamp
IsHeartBeat(e) ==
    /\ e.ev = "handle_message"
    /\ e.established
    /\ e.info = "none"
    /\ Len(e.val.v) = 2
    /\ PyEq(e.val.v[1], VInt(HEART_BEAT))
    /\ e.val.v[2].t = "datetime"

\* the bytes are one frame that holds the list [HEART_BEAT_REPLY, t]
IsReplyFrame(bytes, t) ==
    /\ Len(bytes) >= 4
    /\ UnpackU32(SubSeq(bytes, 1, 4)) = Len(bytes) - 4
    /\ With(QVariantList_decode(bytes, 4),
            LAMBDA r : /\ r.exc = "none"
                       /\ r.pos = Len(bytes)
                       /\ Len(r.val.v) = 2
                       /\ PyEq(r.val.v[1], VInt(HEART_BEAT_REPLY))
                       /\ r.val.v[2].t = "datetime"
                       /\ r.val.v[2].v = t.v)

\* C4 (heart beat echo): in an established session the client answers a
\* frame [HEART_BEAT, t] with exactly one frame [HEART_BEAT_REPLY, t] and
\* writes nothing else.
C4_HeartBeatEcho ==
    \A i \in Indices("handle_message") :
        IsHeartBeat(trace[i]) => IsReplyFrame(WrittenRun(i + 1), trace[i].val.v[2])

C6_NothingAfterReject ==
    \A i \in Indices("close") :
        /\ ~self._handshake
        /\ \A j \in (i + 1)..Len(trace) : trace[j].ev # "handle_message"

\* C7 (ClientInit behind the TLS handshake): where encryption was agreed,
\* the client writes application bytes only after the handshake's callback
\* reported success, and while the handshake is not complete nothing that
\* arrives reaches the inflater or the framer.
C7_ClientInitAfterTls ==
    HasFeature(Machine, FEATURE_ENCRYPTION) =>
      /\ \A j \in Indices("write") :
           (j > 1 /\ trace[j].info # "hs") =>
             \E k \in 1..(j - 1) : trace[k].ev = "print" /\ trace[k].info = "we have handshake"
      /\ self._sslPipe \in {"handshake", "failed"} =>
           /\ ~self._inflater.fed
           /\ self._buffer = <<>>
           /\ self.pos = 0
           /\ Indices("handle_message") = {}

\* the TLS handshake completed after a round that asked for more records,
\* and the ClientInit went out through the pipe
C7_Witness ==
    /\ self._sslPipe = "wrapped"
    /\ peer.rounds = MaxHsRounds
    /\ Len(Sent) >= 1
    /\ MsgTypeOf(Sent[1]) = S_ClientInit
    /\ \E j \in Indices("write") : trace[j].info = "tls+z"

\* C8 (TLS handshake failure): once the TLS handshake has failed the
\* transport is open no more, and the client never sends a ClientInit.
C8_TlsFailureCloses ==
    self._sslPipe = "failed" =>
      /\ transport.state # "open"
      /\ \A j \in Indices("write") : j = 1 \/ trace[j].info = "hs"

\* C9 (protocol mismatch): after a probe response that names a protocol
\* other than DataStream no features are recorded, the client keeps
\* probing, sends no ClientInit and processes no later bytes.
C9_ProtocolMismatchFatal ==
    (peer.answers # <<>> /\ peer.answers[1][2] # DATASTREAMPROTOCOL) =>
      /\ self.connection_features = 0
      /\ self._probing
      /\ self.proto_type = peer.answers[1][2]
      /\ \A j \in Indices("write") : j = 1

\* the connection features the client asked for in its probe
Advertised == trace[1].data[4]

\* C10 (features within what was asked for): the features the client
\* records are among those it asked for; to a loopback peer it asks for no
\* encryption and never sets up the TLS pipe.
C10_FeaturesWithinAdvertised ==
    trace # <<>> =>
      /\ BitAnd(self.connection_features, Advertised) = self.connection_features
      /\ transport.is_loopback => self._sslPipe = "unset"

\* C11 (compression invariant I4): with the compression bit recorded, every
\* chunk written to the receive buffer is what the inflater just returned,
\* and every write behind the probe that is no TLS handshake record went
\* through the deflater; without the bit nothing is inflated; what the
\* inflater returns always goes to the receive buffer, never to the probe
\* handler, and the probe words are written plain.
C11_CompressionInvariant ==
    /\ HasFeature(Machine, FEATURE_COMPRESSION) =>
         /\ \A i \in Indices("buffer.write") :
              i > 1 /\ trace[i - 1].ev = "inflate" /\ trace[i - 1].data = trace[i].data
         /\ \A j \in Indices("write") : j > 1 => trace[j].info \in {"z", "tls+z", "hs"}
    /\ ~HasFeature(Machine, FEATURE_COMPRESSION) => Indices("inflate") = {}
    /\ \A i \in Indices("inflate") : i < Len(trace) /\ trace[i + 1].ev = "buffer.write"
    /\ trace # <<>> => trace[1].info = "plain"

\* compressed frames were received through TLS and a message went out
\* deflated through TLS
C11_Witness ==
    /\ HasFeature(Machine, FEATURE_COMPRESSION)
    /\ HasFeature(Machine, FEATURE_ENCRYPTION)
    /\ Indices("buffer.write") # {}
    /\ \E j \in Indices("write") : trace[j].info = "tls+z" /\ trace[j].data # <<>>

\* C12 (partial flushes aligned with messages): under compression every
\* partial flush of the deflater delivers exactly one whole message, its
\* length word and its payload; none comes between the two.
C12_FlushPerMessage ==
    \A j \in Indices("write") :
        trace[j].info \in {"z", "tls+z"} =>
          /\ Len(trace[j].data) >= 4
          /\ UnpackU32(SubSeq(trace[j].data, 1, 4)) = Len(trace[j].data) - 4

\* C13 (encryption without compression): once the TLS handshake has
\* succeeded in that configuration, send_data has not failed and the
\* ClientInit has reached the transport.
C13_EncryptionOnlySends ==
    (/\ HasFeature(Machine, FEATURE_ENCRYPTION)
     /\ ~HasFeature(Machine, FEATURE_COMPRESSION)
     /\ self._sslPipe = "wrapped")
    => /\ \A i \in Indices("raise") : trace[i].info # "UnboundLocalError"
       /\ Len(Sent) >= 1
       /\ MsgTypeOf(Sent[1]) = S_ClientInit

\* the last registration of name in the registrations made, 0 for none
LastRegistration(name) ==
    IF \E i \in 1..Len(_user_types) : _user_types[i][1] = name
      THEN CHOOSE i \in 1..Len(_user_types) :
             /\ _user_types[i][1] = name
             /\ \A j \in (i + 1)..Len(_user_types) : _user_types[j][1] # name
      ELSE 0

SameResult(r1, r2) ==
    /\ r1.exc = r2.exc
    /\ r1.pos = r2.pos
    /\ r1.val.t = r2.val.t
    /\ r1.val = r2.val

\* what the claim says QVariant.decode returns for a user type whose last
\* registration is entry, the payload starting at p
ExpectedOfEntry(entry, data, p) ==
    IF entry.alias THEN DecodeByTag(entry.tag, data, p)
    ELSE IF entry.cls = "BufferInfo" THEN BufferInfo_decode(data, p)
    ELSE Message_decode(data, p)

\* C14 (QVariant decode dispatch): a user-type QVariant decodes as the last
\* registration of its name says: the built-in decoder of the aliased tag,
\* or the registered class's decoder, applied to the payload; an
\* unregistered name and an unknown tag give a DecodeException and no
\* value; NetworkId with payload 00 00 00 2A gives 42.
C14_QVariantDispatch ==
    codec.op = "QVariant.decode" =>
      /\ \A name \in CodecNames : \A payload \in CodecPayloads :
           codec.data = UserVariant(name, payload) =>
             IF LastRegistration(name) = 0
               THEN codec.result.exc = "DecodeException" /\ codec.result.val = VNone
               ELSE SameResult(codec.result,
                               ExpectedOfEntry(_user_types[LastRegistration(name)][2],
                                               codec.data, Len(codec.data) - Len(payload)))
      /\ \A payload \in CodecPayloads :
           /\ codec.data = WireVariant(UnknownTag, payload) =>
                codec.result.exc = "DecodeException" /\ codec.result.val = VNone
           /\ (codec.data = UserVariant(N_NetworkId, <<0, 0, 0, 42>>)
               /\ _user_types = Registrations) => codec.result.val = VInt(42)

\* a name registered twice with different entries was decoded
C14_Witness ==
    /\ codec.op = "QVariant.decode"
    /\ codec.data = UserVariant(N_NetworkId, <<0, 0, 0, 42>>)
    /\ Len(_user_types) = Len(Registrations) + MaxRegistrations
    /\ _user_types[Len(_user_types)] = <<N_NetworkId, UserAlias(QBOOL)>>
    /\ _user_types[Len(_user_types) - 1] = <<N_NetworkId, UserClass("BufferInfo")>>
    /\ codec.result.val.t = "bool"

\* C15, the round trip: what QDate.encode made of a date decodes to that date
C15_RoundTrip ==
    (codec.op = "QDate.decode" /\ codec.arg.t = "date") =>
      /\ codec.result.exc = "none"
      /\ codec.result.val.t = "date"
      /\ codec.result.val = codec.arg

\* C15, the spot check: 1858-11-17 encodes to Julian day 2400000
C15_SpotCheck ==
    (codec.op = "QDate.encode" /\ codec.arg = VDate(1858, 11, 17)) =>
      codec.data = PackU32(2400000)

\* C15, null and clamp: Julian day 0 decodes to None, a Julian day before
\* 0001-01-01 to 0001-01-01
C15_NullAndClamp ==
    (codec.op = "QDate.decode" /\ codec.arg.t = "none") =>
      /\ codec.data = PackU32(0) => codec.result.exc = "none" /\ codec.result.val = VNone
      /\ codec.data \in {PackU32(1), PackU32(2), PackU32(1721059), PackU32(1721060),
                         PackU32(1721425)}
           => /\ codec.result.exc = "none"
              /\ codec.result.val.t = "date"
              /\ codec.result.val = VDate(1, 1, 1)

\* C15 (Julian-day correctness): every date encoded decodes to itself,
\* 1858-11-17 encodes to Julian day 2400000, Julian day 0 decodes to None
\* and a Julian day before year 1 decodes to 0001-01-01.
C15_JulianDay == C15_RoundTrip /\ C15_SpotCheck /\ C15_NullAndClamp

\* C16 (no dispatch before the frame is complete): whenever handle_data
\* calls handle_message for a frame that starts at p with declared length
\* L, the receive buffer holds the frame's 4 + L bytes.
C16_DispatchOnlyComplete ==
    \A i \in Indices("dispatch") :
        trace[i].data[1] + 4 + trace[i].data[2] <= trace[i].data[3]

\* the last data_received call wrote to the buffer, dispatched at least one
\* frame and returned, and every frame dispatched so far was complete
DispatchedAndReturned ==
    /\ Indices("buffer.write") # {}
    /\ \A i \in Indices("dispatch") :
         trace[i].data[1] + 4 + trace[i].data[2] <= trace[i].data[3]
    /\ \E i \in Indices("dispatch") : \A b \in Indices("buffer.write") : b < i
    /\ \A i \in Indices("raise") \cup Indices("hang") :
         \E b \in Indices("buffer.write") : i < b

\* the bytes of the peer's last frame that were delivered while the rest of
\* it is still to come
DeliveredHead ==
    SubSeq(Frame(peer.sent[Len(peer.sent)]), 1,
           Len(Frame(peer.sent[Len(peer.sent)])) - Len(wire))

\* C17, the tail: after frames were dispatched and the head of a following
\* frame remains, the receive buffer holds exactly that head
C17_TailKept ==
    (DispatchedAndReturned /\ wire # <<>>) => self._buffer = DeliveredHead

\* C17, the append: the next data_received call writes behind that head
C17_AppendBehindTail ==
    (DispatchedAndReturned /\ wire # <<>>) => self.pos = Len(DeliveredHead)

\* C17, the restart: with no unread byte left the next write is at offset 0
C17_RestartAtZero ==
    (DispatchedAndReturned /\ wire = <<>>) => self.pos = 0

\* C17 (buffer compaction keeps the unread tail): after handle_data has
\* dispatched complete frames, the buffer holds exactly the unread bytes of
\* the incomplete frame that follows and the next bytes received are
\* appended behind them; with no unread bytes the buffer restarts at zero.
C17_CompactionKeepsTail == C17_TailKept /\ C17_AppendBehindTail /\ C17_RestartAtZero

\* the dispatch at i was of a frame that was complete in the buffer
FrameComplete(i) == trace[i].data[1] + 4 + trace[i].data[2] <= trace[i].data[3]

\* C18, decode succeeded: the decoder has read exactly the frame's declared
\* length, so that the cursor stands at p + 4 + L
C18_CursorAfterSuccess ==
    \A i \in Indices("dispatch") :
        (FrameComplete(i) /\ trace[i + 1].info = "none") =>
            Len(trace[i + 1].data) = trace[i].data[2]

\* C18, decode failed with a DecodeException: the cursor is set to p + 4 + L
C18_CursorAfterFailure ==
    \A i \in Indices("dispatch") :
        (FrameComplete(i) /\ trace[i + 1].info = "DecodeException") =>
            /\ i + 2 <= Len(trace)
            /\ trace[i + 2].ev = "log.error"
            /\ trace[i + 2].data[3] = trace[i].data[1] + 4 + trace[i].data[2]

\* C18, the next frame: a length word is read only where the frame before
\* it ended
C18_NextLengthWord ==
    \A i, j \in Indices("dispatch") :
        (/\ i < j
         /\ trace[j].data[1] > 0
         /\ \A k \in Indices("dispatch") : ~(i < k /\ k < j))
        => trace[j].data[1] = trace[i].data[1] + 4 + trace[i].data[2]

\* C18 (invariant I3): after every dispatch of a frame that starts at p and
\* declares length L the read cursor is p + 4 + L, whether the decode
\* succeeded or failed, and the next length word is read from there.
C18_CursorAtFrameEnd ==
    C18_CursorAfterSuccess /\ C18_CursorAfterFailure /\ C18_NextLengthWord

\* C19 (every per-frame decode error is recoverable): when the decoding of
\* a complete frame fails, whatever the error, handle_data catches it and
\* logs it; nothing is raised out of data_received.
C19_DecodeErrorsCaught ==
    \A i \in Indices("dispatch") :
        (FrameComplete(i) /\ trace[i + 1].info # "none") =>
            /\ i + 2 <= Len(trace)
            /\ trace[i + 2].ev = "log.error"

\* a call of handle_message in an established session on a list whose
\* length does not fit its message type
IsMalformedShape(e) ==
    /\ e.ev = "handle_message"
    /\ e.established
    /\ e.info = "none"
    /\ \/ Len(e.val.v) = 0
       \/ /\ Len(e.val.v) > 0
          /\ \/ PyEq(e.val.v[1], VInt(SYNC)) /\ Len(e.val.v) < 4
             \/ PyEq(e.val.v[1], VInt(RPC)) /\ Len(e.val.v) = 1
             \/ PyEq(e.val.v[1], VInt(INIT_REQUEST)) /\ Len(e.val.v) # 3
             \/ PyEq(e.val.v[1], VInt(HEART_BEAT)) /\ Len(e.val.v) # 2

\* C20 (wrong arity is dropped): an established session that is handed a
\* message whose length does not fit its type writes nothing in answer,
\* raises nothing out of the handler and stays open and established.
C20_MalformedShapeDropped ==
    \A i \in 1..Len(trace) :
        IsMalformedShape(trace[i]) =>
          /\ i < Len(trace) => trace[i + 1].ev \notin {"write", "raise", "close"}
          /\ i = Len(trace) => transport.state = "open" /\ self._handshake

\* C21, probing: _probing never goes back to true
C21_ProbingStep == ~self._probing => ~self'._probing

\* C21, probing: the first probe response ends it
C21_ProbingEndsOnFirstResponse == peer.answers # <<>> => ~self._probing

\* C21, handshake: _handshake never goes back to false, and it becomes
\* true only in a call that was made while not probing and that handled a
\* SessionInit as a legacy message
C21_HandshakeStep ==
    /\ self._handshake => self'._handshake
    /\ (~self._handshake /\ self'._handshake) =>
         /\ ~self._probing
         /\ \E i \in (Len(trace) + 1)..Len(trace') :
              /\ trace'[i].ev = "handle_message"
              /\ ~trace'[i].established
              /\ trace'[i].info = "none"
              /\ MsgTypeOf(trace'[i].val) = S_SessionInit

\* C21, once Established: a frame that reads as a legacy message is not
\* answered (no ClientLogin, no INIT_REQUEST of a second SessionInit) and
\* does not close the transport
C21_NoLegacyOnceEstablished ==
    \A i \in Indices("handle_message") :
        (trace[i].established /\ trace[i].info = "none" /\ MsgTypeOf(trace[i].val) # <<>>)
        => (i < Len(trace) => trace[i + 1].ev \notin {"write", "close"})

\* C21, what was stashed at SessionInit stays as it is once Established
C21_StashStep ==
    self._handshake =>
      /\ self'._identities = self._identities
      /\ self'._networks = self._networks
      /\ self'._buffers = self._buffers

\* C21, before Established: a frame whose list starts with a type code is
\* not answered as a message of the session
C21_NoRegularBeforeEstablished ==
    \A i \in Indices("handle_message") :
        (/\ ~trace[i].established
         /\ trace[i].info = "none"
         /\ Len(trace[i].val.v) > 0
         /\ trace[i].val.v[1].t = "int")
        => (i < Len(trace) => trace[i + 1].ev # "write")

\* C21 (the session phases only move forward): _probing goes from true to
\* false once, on the first probe response, and never back; _handshake goes
\* from false to true only on a SessionInit received while not probing and
\* never back; once Established no frame is handled as a legacy message,
\* and before Established none as a message of the session.
C21_PhasesForward ==
    /\ [](/\ C21_ProbingEndsOnFirstResponse
          /\ C21_NoLegacyOnceEstablished
          /\ C21_NoRegularBeforeEstablished)
    /\ [][C21_ProbingStep /\ C21_HandshakeStep /\ C21_StashStep]_vars

\* the byte stream of payloads sent each behind its length word
RECURSIVE Frames_of(_)
Frames_of(payloads) ==
    IF payloads = <<>> THEN <<>>
    ELSE PackU32(Len(Head(payloads))) \o Head(payloads) \o Frames_of(Tail(payloads))

\* a call of handle_message while handshaking that decoded a SessionInit
IsSessionInit(e) ==
    /\ e.ev = "handle_message"
    /\ ~e.established
    /\ e.info = "none"
    /\ MsgTypeOf(e.val) = S_SessionInit

\* SessionState.NetworkIds of a decoded SessionInit: the ids, in order
NetworkIdsOf(list) ==
    With(FieldOf(list, K_SessionState), LAMBDA state :
      IF state.t = "dict" /\ DictHas(state, VStr(K_NetworkIds))
         /\ DictGet(state, VStr(K_NetworkIds)).t = "list"
        THEN DictGet(state, VStr(K_NetworkIds)).v
        ELSE <<>>)

\* the payload is the list [INIT_REQUEST, 'Network', text of id]
IsNetworkRequest(payload, id) ==
    With(QVariantList_decode(payload, 0), LAMBDA r :
      /\ r.exc = "none"
      /\ Len(r.val.v) = 3
      /\ r.val.v[1].t = "int" /\ r.val.v[1].v = INIT_REQUEST
      /\ r.val.v[2].t = "bytes" /\ r.val.v[2].v = Utf8Encode(S_Network)
      /\ id.t = "int"
      /\ r.val.v[3].t = "bytes" /\ r.val.v[3].v = Utf8Encode(IntStr(id.v)))

\* the payload is a list that starts with INIT_REQUEST
IsInitRequest(payload) ==
    With(QVariantList_decode(payload, 0), LAMBDA r :
      /\ r.exc = "none"
      /\ Len(r.val.v) > 0
      /\ r.val.v[1].t = "int" /\ r.val.v[1].v = INIT_REQUEST)

\* the frames written from entry i on are the requests for ids, in order
RequestsFor(frames, ids) ==
    /\ Len(frames) = Len(ids)
    /\ \A k \in 1..Len(ids) : IsNetworkRequest(frames[k], ids[k])

\* C22, the requests: a SessionInit handled while handshaking is answered,
\* in the Established state, by one INIT_REQUEST per network id, in order,
\* each a length word and its payload, and by nothing else
C22_RequestPerNetwork ==
    \A i \in 1..Len(trace) :
        IsSessionInit(trace[i]) =>
          /\ \A j \in (i + 1)..Len(trace) :
               (\A k \in (i + 1)..j : trace[k].ev = "write") => trace[j].established
          /\ WrittenRun(i + 1)
               = Frames_of(SplitFrames(WrittenRun(i + 1)))
          /\ RequestsFor(SplitFrames(WrittenRun(i + 1)), NetworkIdsOf(trace[i].val))

\* C22, no other time: a write that holds an INIT_REQUEST belongs to a
\* SessionInit
C22_OnlyAtSessionInit ==
    \A j \in Indices("write") :
        (trace[j].info # "hs" /\ Len(trace[j].data) > 4 /\ Cause(j) > 0
         /\ (IsInitRequest(trace[j].data) \/ IsInitRequest(SubSeq(trace[j].data, 5, Len(trace[j].data)))))
        => IsSessionInit(trace[Cause(j)])

\* C22 (INIT_REQUEST per network): on a SessionInit received while
\* handshaking the client becomes Established and then sends exactly one
\* INIT_REQUEST [3, 'Network', id as text] per entry of NetworkIds, in
\* order, each as a length word followed by its payload; no INIT_REQUEST
\* goes out for identities or buffers or at any other time.
C22_InitRequests == C22_RequestPerNetwork /\ C22_OnlyAtSessionInit

\* a call of handle_message in an established session on a list that
\* starts with a type code other than HEART_BEAT
IsQuietMessage(e) ==
    /\ e.ev = "handle_message"
    /\ e.established
    /\ e.info = "none"
    /\ Len(e.val.v) > 0
    /\ e.val.v[1].t = "int"
    /\ e.val.v[1].v # HEART_BEAT

\* C23 (only HEART_BEAT elicits output): a data_received call that hands
\* an established session only messages of the types SYNC, RPC,
\* INIT_REQUEST, INIT_DATA and HEART_BEAT_REPLY, or of a type code outside
\* 1..6, writes nothing, leaves the transport as it is and changes neither
\* the phase flags nor what SessionInit stashed.
C23_QuietStep ==
    (/\ \E i \in (Len(trace) + 1)..Len(trace') : trace'[i].ev = "handle_message"
     /\ \A i \in (Len(trace) + 1)..Len(trace') :
          trace'[i].ev = "handle_message" => IsQuietMessage(trace'[i]))
    => /\ \A i \in (Len(trace) + 1)..Len(trace') : trace'[i].ev \notin {"write", "close"}
       /\ transport' = transport
       /\ self'._probing = self._probing
       /\ self'._handshake = self._handshake
       /\ self'._identities = self._identities
       /\ self'._networks = self._networks
       /\ self'._buffers = self._buffers

C23_OnlyHeartBeatElicits == [][C23_QuietStep]_vars

====
